---- MODULE Spec2Model ----
(***************************************************************************)
(* Model of the Edge Operator Agent demo: the ModelRouter (local / cloud   *)
(* switching with a connectivity probe and a lazily built cloud handle),   *)
(* the EdgeOperatorAgent wrapper around it, the Streamlit sidebar that     *)
(* drives it, and the SCADA report extractor.                              *)
(***************************************************************************)
EXTENDS Integers, Sequences, FiniteSets, TLC

VARIABLES
    session_state,   \* st.session_state: .agent ("None" | "EdgeOperatorAgent"), .model_mode
    model_router,    \* EdgeOperatorAgent.model_router: the ModelRouter's fields
    strands_agent,   \* EdgeOperatorAgent._agent: None or the Agent instance
    probes,          \* number of connectivity probes run so far (socket.create_connection)
    probe_failures,  \* number of those probes that failed
    constructions,   \* number of BedrockModel objects constructed so far
    calls,           \* number of calls made so far
    extraction,      \* the last extract_scada_metrics call: its report_text and result
    last,            \* the last call: operation, argument, outcome, state before it
    filesystem,      \* the disk: .dirs and .files, sets of paths below the working directory
    edge_managers,   \* the EdgeSessionManager objects constructed so far, in order
    session_managers, \* the FileSessionManager objects constructed so far
    session_call,    \* the last call of session_manager.py: operation, outcome, state before
    default_registry, \* the devices of the registry of iot_tools.py, by device id
    device_call,     \* the last call of an IoT tool: operation, arguments, outcome, state before
    threads,         \* the threads calling the router: position, call, locals, result
    stream           \* stream_agent_response: its queue, event, thread and generator

\* The state of session_manager.py.
session_vars == <<filesystem, edge_managers, session_managers, session_call>>

\* The state of iot_tools.py.
iot_vars == <<default_registry, device_call>>

\* The state of the parts that the router, the agent, the UI, the extraction
\* and session_manager.py leave alone.
rest_vars == <<iot_vars, threads, stream>>

vars == <<session_state, model_router, strands_agent, probes, probe_failures,
          constructions, calls, extraction, last, filesystem, edge_managers,
          session_managers, session_call, rest_vars>>

\* Bound on the length of a run (number of calls).
MaxCalls == 5

----------------------------------------------------------------------------
(* Handles.  Python's None, the one OllamaModel, the n-th BedrockModel.    *)

None == [kind |-> "None", id |-> 0]

OllamaModel == [kind |-> "OllamaModel", id |-> 0]

BedrockModel(n) == [kind |-> "BedrockModel", id |-> n]

\* The arguments callers pass to set_mode: the two modes and invalid strings
\* (the comparison with "local" / "cloud" is exact, so "Cloud" is invalid).
Modes == {"local", "cloud"}

ModeArgs == {"local", "cloud", "Cloud", "hybrid"}

\* Outcomes of socket.create_connection((host, 443), timeout=5).
ProbeOutcomes == {"connected", "timeout", "refused", "dns"}

\* Outcomes of the BedrockModel(...) constructor call (import included).
CtorOutcomes == {"ok", "raises"}

----------------------------------------------------------------------------
(* ModelRouter *)

\* ModelRouter.__init__
ModelRouterInit_CloudFirst ==
    [ollama_model |-> OllamaModel, bedrock_model |-> None, current_mode |-> "cloud"]

ModelRouterInit ==
    [ollama_model |-> OllamaModel, bedrock_model |-> None, current_mode |-> "local"]

\* The router's fields before the EdgeOperatorAgent (and so the router) exists.
NoRouter ==
    [ollama_model |-> None, bedrock_model |-> None, current_mode |-> "unset"]

\* ModelRouter._check_connectivity: True iff the connection is made; every
\* failure of create_connection is an OSError and gives False.
check_connectivity(probe) == probe = "connected"

\* ModelRouter._get_bedrock_model, on router fields r; n numbers the handle
\* that a construction would make.  A raising constructor leaves the field.
get_bedrock_model_Always(r, ctor, n) ==
    IF ctor = "ok"
    THEN [router |-> [r EXCEPT !.bedrock_model = BedrockModel(n)],
          raised |-> FALSE, handle |-> BedrockModel(n), built |-> 1]
    ELSE [router |-> r, raised |-> TRUE, handle |-> None, built |-> 0]

get_bedrock_model(r, ctor, n) ==
    IF r.bedrock_model = None
    THEN IF ctor = "ok"
         THEN [router |-> [r EXCEPT !.bedrock_model = BedrockModel(n)],
               raised |-> FALSE, handle |-> BedrockModel(n), built |-> 1]
         ELSE [router |-> r, raised |-> TRUE, handle |-> None, built |-> 0]
    ELSE [router |-> r, raised |-> FALSE, handle |-> r.bedrock_model, built |-> 0]

\* ModelRouter.get_model
get_model(r, ctor, n) ==
    IF r.current_mode = "local"
    THEN [router |-> r, raised |-> FALSE, handle |-> r.ollama_model, built |-> 0]
    ELSE get_bedrock_model(r, ctor, n)

\* The part of set_mode after a successful probe: build the handle if needed,
\* then assign current_mode.
cloud_branch_ModeFirst(r, probe, ctor, n) ==
    LET m == [r EXCEPT !.current_mode = "cloud"]
        g == get_bedrock_model(m, ctor, n)
    IN  IF g.raised
        THEN [router |-> g.router, ret |-> "raised", probed |-> 1, built |-> 0]
        ELSE [router |-> g.router, ret |-> "True", probed |-> 1, built |-> g.built]

cloud_branch(r, probe, ctor, n) ==
    LET g == get_bedrock_model(r, ctor, n)
    IN  IF g.raised
        THEN [router |-> g.router, ret |-> "raised", probed |-> 1, built |-> 0]
        ELSE [router |-> [g.router EXCEPT !.current_mode = "cloud"],
              ret |-> "True", probed |-> 1, built |-> g.built]

\* ModelRouter.set_mode.  ret is "True", "False" or "raised" (the exception
\* of the constructor leaves set_mode before current_mode is assigned).
set_mode_FallBackToLocal(r, mode, probe, ctor, n) ==
    IF mode = "local"
    THEN [router |-> [r EXCEPT !.current_mode = "local"],
          ret |-> "True", probed |-> 0, built |-> 0]
    ELSE IF mode = "cloud"
    THEN IF ~check_connectivity(probe)
         THEN [router |-> [r EXCEPT !.current_mode = "local"],
               ret |-> "False", probed |-> 1, built |-> 0]
         ELSE cloud_branch(r, probe, ctor, n)
    ELSE [router |-> r, ret |-> "False", probed |-> 0, built |-> 0]

set_mode_LocalTeardown(r, mode, probe, ctor, n) ==
    IF mode = "local"
    THEN [router |-> [r EXCEPT !.current_mode = "local", !.bedrock_model = None],
          ret |-> "True", probed |-> 0, built |-> 0]
    ELSE IF mode = "cloud"
    THEN IF ~check_connectivity(probe)
         THEN [router |-> r, ret |-> "False", probed |-> 1, built |-> 0]
         ELSE cloud_branch(r, probe, ctor, n)
    ELSE [router |-> r, ret |-> "False", probed |-> 0, built |-> 0]

set_mode_ElseIsCloud(r, mode, probe, ctor, n) ==
    IF mode = "local"
    THEN [router |-> [r EXCEPT !.current_mode = "local"],
          ret |-> "True", probed |-> 0, built |-> 0]
    ELSE IF ~check_connectivity(probe)
    THEN [router |-> r, ret |-> "False", probed |-> 1, built |-> 0]
    ELSE cloud_branch(r, probe, ctor, n)

set_mode_SkipProbeInCloud(r, mode, probe, ctor, n) ==
    IF mode = "local"
    THEN [router |-> [r EXCEPT !.current_mode = "local"],
          ret |-> "True", probed |-> 0, built |-> 0]
    ELSE IF mode = "cloud"
    THEN IF r.current_mode = "cloud"
         THEN [router |-> r, ret |-> "True", probed |-> 0, built |-> 0]
         ELSE IF ~check_connectivity(probe)
         THEN [router |-> r, ret |-> "False", probed |-> 1, built |-> 0]
         ELSE cloud_branch(r, probe, ctor, n)
    ELSE [router |-> r, ret |-> "False", probed |-> 0, built |-> 0]

set_mode(r, mode, probe, ctor, n) ==
    IF mode = "local"
    THEN [router |-> [r EXCEPT !.current_mode = "local"],
          ret |-> "True", probed |-> 0, built |-> 0]
    ELSE IF mode = "cloud"
    THEN IF ~check_connectivity(probe)
         THEN [router |-> r, ret |-> "False", probed |-> 1, built |-> 0]
         ELSE cloud_branch(r, probe, ctor, n)
    ELSE [router |-> r, ret |-> "False", probed |-> 0, built |-> 0]

----------------------------------------------------------------------------
(* EdgeOperatorAgent *)

MsgSwitched == "Successfully switched to <mode> mode"

MsgRemainLocal == "Cannot switch to cloud mode: connectivity unavailable. Remaining in local mode."

MsgFailed == "Failed to switch to <mode> mode"

\* EdgeOperatorAgent.set_model_mode on router fields r and Agent a.
set_model_mode_KeepModel(r, a, mode, probe, ctor, n) ==
    LET s == set_mode(r, mode, probe, ctor, n)
    IN  IF s.ret = "raised"
        THEN [router |-> s.router, agent |-> a, ret |-> "raised", message |-> "",
              probed |-> s.probed, built |-> s.built]
        ELSE IF s.ret = "True"
        THEN [router |-> s.router, agent |-> a, ret |-> "True",
              message |-> MsgSwitched, probed |-> s.probed, built |-> s.built]
        ELSE [router |-> s.router, agent |-> a, ret |-> "False",
              message |-> IF mode = "cloud" THEN MsgRemainLocal ELSE MsgFailed,
              probed |-> s.probed, built |-> s.built]

set_model_mode(r, a, mode, probe, ctor, n) ==
    LET s == set_mode(r, mode, probe, ctor, n)
    IN  IF s.ret = "raised"
        THEN [router |-> s.router, agent |-> a, ret |-> "raised", message |-> "",
              probed |-> s.probed, built |-> s.built]
        ELSE IF s.ret = "True"
        THEN LET g == get_model(s.router, ctor, n + s.built)
             IN  IF a = None
                 THEN [router |-> s.router, agent |-> a, ret |-> "True",
                       message |-> MsgSwitched, probed |-> s.probed, built |-> s.built]
                 ELSE IF g.raised
                 THEN [router |-> g.router, agent |-> a, ret |-> "raised", message |-> "",
                       probed |-> s.probed, built |-> s.built]
                 ELSE [router |-> g.router, agent |-> [a EXCEPT !.model = g.handle],
                       ret |-> "True", message |-> MsgSwitched,
                       probed |-> s.probed, built |-> s.built + g.built]
        ELSE [router |-> s.router, agent |-> a, ret |-> "False",
              message |-> IF mode = "cloud" THEN MsgRemainLocal ELSE MsgFailed,
              probed |-> s.probed, built |-> s.built]

\* EdgeOperatorAgent.agent (property) / _create_agent: the Agent is created on
\* first access with the router's active model.
agent_property(r, a, ctor, n) ==
    IF a = None
    THEN LET g == get_model(r, ctor, n)
         IN  IF g.raised
             THEN [router |-> g.router, agent |-> a, raised |-> TRUE, built |-> 0]
             ELSE [router |-> g.router,
                   agent |-> [kind |-> "Agent", id |-> 1, model |-> g.handle],
                   raised |-> FALSE, built |-> g.built]
    ELSE [router |-> r, agent |-> a, raised |-> FALSE, built |-> 0]

----------------------------------------------------------------------------
(* Text.  A report is a string; TLC reads a string as the sequence of its  *)
(* characters (Len, SubSeq, \o).                                           *)

CharAt(text, i) == SubSeq(text, i, i)

CharsOf(s) == {CharAt(s, i) : i \in 1..Len(s)}

UpperChars == "ABCDEFGHIJKLMNOPQRSTUVWXYZ"

LowerChars == "abcdefghijklmnopqrstuvwxyz"

DigitChars == "0123456789"

\* str.lower() on one character, as re.IGNORECASE compares letters.
ToLower ==
    [c \in CharsOf(UpperChars) |->
        CharAt(LowerChars, CHOOSE i \in 1..Len(UpperChars) : CharAt(UpperChars, i) = c)]

Lower(c) == IF c \in DOMAIN ToLower THEN ToLower[c] ELSE c

\* The character classes of the patterns: \d, \w, \s, [A-Za-z0-9_-].
Digit == CharsOf(DigitChars)

Letter == CharsOf(UpperChars) \cup CharsOf(LowerChars)

WordChar == Letter \cup Digit \cup {"_"}

Space == {" ", "\n", "\t", "\r"}

IdChar == Letter \cup Digit \cup {"_", "-"}

\* str.strip(): the string without its leading and trailing whitespace.
RECURSIVE LStrip(_)
LStrip(s) ==
    IF Len(s) > 0 /\ CharAt(s, 1) \in Space THEN LStrip(SubSeq(s, 2, Len(s))) ELSE s

RECURSIVE RStrip(_)
RStrip(s) ==
    IF Len(s) > 0 /\ CharAt(s, Len(s)) \in Space
    THEN RStrip(SubSeq(s, 1, Len(s) - 1)) ELSE s

Strip(s) == RStrip(LStrip(s))

----------------------------------------------------------------------------
(* Regular expressions (Python's re, backtracking, leftmost match).  A     *)
(* pattern is a sequence of nodes.                                         *)

\* A literal, compared case-insensitively (re.IGNORECASE).
Lit(s) == [t |-> "lit", s |-> s]

\* One character of the set `chars` (neg: of its complement), repeated:
\* min is 0 or 1, many says whether more than one is allowed, lazy is the
\* non-greedy form.
Cls(chars, neg, min, many, lazy) ==
    [t |-> "cls", chars |-> chars, neg |-> neg, min |-> min, many |-> many, lazy |-> lazy]

Plus(chars) == Cls(chars, FALSE, 1, TRUE, FALSE)     \* [..]+

Star(chars) == Cls(chars, FALSE, 0, TRUE, FALSE)     \* [..]*

One(chars) == Cls(chars, FALSE, 1, FALSE, FALSE)     \* [..]

Maybe(chars) == Cls(chars, FALSE, 0, FALSE, FALSE)   \* [..]?

NotPlus(chars) == Cls(chars, TRUE, 1, TRUE, FALSE)   \* [^..]+

LazyNotPlus(chars) == Cls(chars, TRUE, 1, TRUE, TRUE) \* [^..]+?

\* (?: body )?
Opt(body) == [t |-> "opt", body |-> body]

\* The opening and the closing parenthesis of capture group g.
Open(g) == [t |-> "open", g |-> g]

Close(g) == [t |-> "close", g |-> g]

\* (?:\n|$)
EndOfLine == [t |-> "eol"]

NoMatch == [ok |-> FALSE, start |-> 0, end |-> 0, caps |-> <<>>]

NoCaps == << <<0, 0>>, <<0, 0>>, <<0, 0>> >>

InClass(node, c) == IF node.neg THEN c \notin node.chars ELSE c \in node.chars

\* The number of consecutive characters of the node's class from pos + k
\* on (at most one when the node does not repeat), plus k: the first
\* position whose character is outside the class ends the run.
RunLen(node, text, pos, k) ==
    LET upto == IF node.many \/ pos + k > Len(text) THEN Len(text) ELSE pos + k
        outside == SelectSeq([j \in 1..(upto - pos - k + 1) |-> pos + k + j - 1],
                             LAMBDA q : ~InClass(node, CharAt(text, q)))
    IN  IF outside # <<>> THEN outside[1] - pos
        ELSE IF upto >= pos + k THEN upto - pos + 1
        ELSE k

LitAt(lit, text, pos) ==
    /\ pos + Len(lit) - 1 <= Len(text)
    /\ \A i \in 1..Len(lit) : Lower(CharAt(text, pos + i - 1)) = Lower(CharAt(lit, i))

\* MatchAt: the match of pattern re at position pos of text, first in the
\* order a backtracking matcher tries them (greedy: longest repetition
\* first; lazy: shortest first; an optional group: present first).
RECURSIVE MatchAt(_, _, _, _, _)
MatchAt(re, text, start, pos, caps) ==
    IF re = <<>> THEN [ok |-> TRUE, start |-> start, end |-> pos, caps |-> caps]
    ELSE LET h == Head(re)
             rest == Tail(re)
         IN  CASE h.t = "lit" ->
                    IF LitAt(h.s, text, pos)
                    THEN MatchAt(rest, text, start, pos + Len(h.s), caps)
                    ELSE NoMatch
               [] h.t = "cls" ->
                    LET run == RunLen(h, text, pos, 0)
                        try(i) == MatchAt(rest, text, start,
                                          pos + (IF h.lazy THEN h.min + i - 1
                                                 ELSE run - i + 1), caps)
                        first == try(1)
                        others == SelectSeq([i \in 1..(run - h.min) |-> try(i + 1)],
                                            LAMBDA r : r.ok)
                    IN  IF run < h.min THEN NoMatch
                        ELSE IF first.ok THEN first
                        ELSE IF others = <<>> THEN NoMatch
                        ELSE others[1]
               [] h.t = "opt" ->
                    LET with == MatchAt(h.body \o rest, text, start, pos, caps)
                    IN  IF with.ok THEN with
                        ELSE MatchAt(rest, text, start, pos, caps)
               [] h.t = "open" ->
                    MatchAt(rest, text, start, pos, [caps EXCEPT ![h.g] = <<pos, pos>>])
               [] h.t = "close" ->
                    MatchAt(rest, text, start, pos,
                            [caps EXCEPT ![h.g] = <<caps[h.g][1], pos>>])
               [] h.t = "eol" ->
                    IF pos <= Len(text) /\ CharAt(text, pos) = "\n"
                    THEN MatchAt(rest, text, start, pos + 1, caps)
                    ELSE IF pos = Len(text) + 1
                    THEN MatchAt(rest, text, start, pos, caps)
                    ELSE NoMatch

\* The match at the leftmost position from `from` on, looked for in
\* stretches of positions, leftmost stretch first, each stretch twice as
\* wide as the one before.
RECURSIVE SearchIn(_, _, _, _)
SearchIn(re, text, from, width) ==
    LET upto == IF from + width - 1 < Len(text) + 1 THEN from + width - 1
                ELSE Len(text) + 1
        hits == SelectSeq([i \in 1..(upto - from + 1) |->
                              MatchAt(re, text, from + i - 1, from + i - 1, NoCaps)],
                          LAMBDA m : m.ok)
    IN  IF hits # <<>> THEN hits[1]
        ELSE IF upto >= Len(text) + 1 THEN NoMatch
        ELSE SearchIn(re, text, upto + 1, 2 * width)

\* re.search(pattern, text[from:]): the match at the leftmost position.
Search(re, text, from) == SearchIn(re, text, from, 8)

\* re.finditer(pattern, text): the successive non-overlapping matches.
RECURSIVE FindIter(_, _, _)
FindIter(re, text, from) ==
    LET m == Search(re, text, from)
    IN  IF ~m.ok THEN <<>>
        ELSE <<m>> \o FindIter(re, text, IF m.end > m.start THEN m.end ELSE m.end + 1)

\* match.group(g)
Group(text, m, g) == SubSeq(text, m.caps[g][1], m.caps[g][2] - 1)

----------------------------------------------------------------------------
(* Numbers.  int(s) and float(s) of Python on the strings the patterns can *)
(* capture; a float is kept as a decimal num / 10^scale without trailing   *)
(* zeros in the fraction, so that 90, 90.0 and 90.00 are the same value.   *)

DigitValue(c) == (CHOOSE i \in 1..Len(DigitChars) : CharAt(DigitChars, i) = c) - 1

AllDigits(s) == Len(s) > 0 /\ \A i \in 1..Len(s) : CharAt(s, i) \in Digit

RECURSIVE DigitsValue(_, _, _)
DigitsValue(s, i, acc) ==
    IF i > Len(s) THEN acc ELSE DigitsValue(s, i + 1, acc * 10 + DigitValue(CharAt(s, i)))

\* The longest digit string int(s) converts (CPython's default
\* sys.int_info.default_max_str_digits); a longer one is a ValueError.
int_max_str_digits == 4300

\* int(s): an optional sign and at most int_max_str_digits decimal digits,
\* else ValueError.
PyInt(s) ==
    LET t == Strip(s)
        signed == Len(t) > 0 /\ CharAt(t, 1) \in {"-", "+"}
        body == IF signed THEN SubSeq(t, 2, Len(t)) ELSE t
    IN  IF AllDigits(body) /\ Len(body) <= int_max_str_digits
        THEN [ok |-> TRUE,
              value |-> IF signed /\ CharAt(t, 1) = "-" THEN 0 - DigitsValue(body, 1, 0)
                        ELSE DigitsValue(body, 1, 0)]
        ELSE [ok |-> FALSE, value |-> 0]

RECURSIVE Normalise(_)
Normalise(d) ==
    IF d.scale > 0 /\ d.num % 10 = 0
    THEN Normalise([num |-> d.num \div 10, scale |-> d.scale - 1])
    ELSE d

\* The position of the first "." in s, or 0.
RECURSIVE DotAt(_, _)
DotAt(s, i) ==
    IF i > Len(s) THEN 0 ELSE IF CharAt(s, i) = "." THEN i ELSE DotAt(s, i + 1)

\* float(s) that keeps only the digits before the point.
PyFloat_IntegerPart(s) ==
    LET t == Strip(s)
        dot == DotAt(t, 1)
        whole == IF dot = 0 THEN t ELSE SubSeq(t, 1, dot - 1)
    IN  IF AllDigits(whole) THEN [ok |-> TRUE, value |-> [num |-> DigitsValue(whole, 1, 0), scale |-> 0]]
        ELSE [ok |-> FALSE, value |-> [num |-> 0, scale |-> 0]]

\* float(s) for digits with an optional fraction, else ValueError.
PyFloat(s) ==
    LET t == Strip(s)
        dot == DotAt(t, 1)
        whole == IF dot = 0 THEN t ELSE SubSeq(t, 1, dot - 1)
        frac == IF dot = 0 THEN "" ELSE SubSeq(t, dot + 1, Len(t))
    IN  IF AllDigits(whole) /\ (frac = "" \/ AllDigits(frac))
        THEN [ok |-> TRUE,
              value |-> Normalise([num |-> DigitsValue(whole \o frac, 1, 0),
                                   scale |-> Len(frac)])]
        ELSE [ok |-> FALSE, value |-> [num |-> 0, scale |-> 0]]

RECURSIVE Pow10(_)
Pow10(n) == IF n = 0 THEN 1 ELSE 10 * Pow10(n - 1)

\* format(x, ".1f"): one digit after the point, ties to the even digit.
\* (Exact for decimals a float holds exactly, as those of ReportTexts are.)
OneDecimal(d) ==
    IF d.scale = 0 THEN [num |-> d.num * 10, scale |-> 1]
    ELSE IF d.scale = 1 THEN d
    ELSE LET unit == Pow10(d.scale - 1)
             q == d.num \div unit
             rem == d.num % unit
         IN  [num |-> IF 2 * rem > unit \/ (2 * rem = unit /\ q % 2 = 1) THEN q + 1 ELSE q,
              scale |-> 1]

\* A status or severity compared as written, without .lower().
LowerStr_AsWritten(s) == s

RECURSIVE LowerStr(_)
LowerStr(s) == IF s = "" THEN "" ELSE Lower(CharAt(s, 1)) \o LowerStr(SubSeq(s, 2, Len(s)))

RECURSIVE UpperStr(_)
UpperStr(s) ==
    IF s = "" THEN ""
    ELSE LET c == CharAt(s, 1)
             up == IF \E u \in DOMAIN ToLower : ToLower[u] = c
                   THEN CHOOSE u \in DOMAIN ToLower : ToLower[u] = c ELSE c
         IN  up \o UpperStr(SubSeq(s, 2, Len(s)))

----------------------------------------------------------------------------
(* The patterns of scada_extraction_tools.py.  [:\s]+ is Sep; the reports  *)
(* of the model are ASCII, so the en dash of [-] (or an en dash) never occurs.        *)

Sep == Plus({":"} \cup Space)

Number(g) ==
    <<Open(g), Plus(Digit), Opt(<<Lit("."), Plus(Digit)>>), Close(g)>>

line_id_patterns ==
    << <<Opt(<<Lit("Production"), Plus(Space)>>), Lit("Line"),
         Opt(<<Plus(Space), Lit("ID")>>), Sep, Open(1), Plus(IdChar), Close(1)>>,
       <<Lit("line_id"), Sep, Open(1), Plus(IdChar), Close(1)>> >>

shift_patterns ==
    << <<Lit("Shift"), Sep, Open(1), Plus(WordChar), Close(1)>>,
       <<Lit("shift"), Sep, Open(1), Plus(WordChar), Close(1)>> >>

units_produced_patterns ==
    << <<Lit("Units"), Plus(Space), Lit("Produced"), Sep, Open(1), Plus(Digit), Close(1)>>,
       <<Lit("Produced"), Sep, Open(1), Plus(Digit), Close(1)>>,
       <<Lit("units_produced"), Sep, Open(1), Plus(Digit), Close(1)>> >>

units_target_patterns ==
    << <<Opt(<<Lit("Units"), Plus(Space)>>), Lit("Target"), Sep,
         Open(1), Plus(Digit), Close(1)>>,
       <<Lit("units_target"), Sep, Open(1), Plus(Digit), Close(1)>> >>

efficiency_patterns ==
    << <<Lit("Efficiency"), Opt(<<Plus(Space), Lit("Percent")>>), Sep>> \o Number(1)
          \o <<Star(Space), Maybe({"%"})>>,
       <<Lit("efficiency_percent"), Sep>> \o Number(1),
       <<Lit("efficiency"), Sep>> \o Number(1) >>

equipment_pattern ==
    <<Lit("Equipment"), Sep, Open(1), Plus(IdChar), Close(1), Star(Space), One({"-"}),
      Star(Space), Open(2), NotPlus({"("}), Close(2), Star(Space), Lit("("),
      Open(3), Plus(WordChar), Close(3), Lit(")")>>

sensor_pattern ==
    <<Lit("Sensor"), Sep, Open(1), Plus(IdChar), Close(1), Star(Space), One({"=", ":"}),
      Star(Space)>> \o Number(2) \o <<Star(Space), Open(3), NotPlus(Space), Close(3)>>

alarm_pattern ==
    <<Lit("Alarm"), Sep, Open(1), Plus(IdChar), Close(1), Star(Space), Lit("("),
      Open(2), Plus(WordChar), Close(2), Lit(")"), Star(Space), One({"-", ":"}),
      Star(Space), Open(3), LazyNotPlus({"\n"}), Close(3), EndOfLine>>

valid_statuses == {"running", "stopped", "maintenance", "fault"}

valid_severities == {"low", "medium", "high", "critical"}

----------------------------------------------------------------------------
(* The pydantic models of scada_models.py: each validator gives the names  *)
(* of the fields that fail, in field order (empty: the object is valid).   *)

Errors(checks) == SelectSeq(checks, LAMBDA c : ~c[2])

FieldNames(errs) == [i \in 1..Len(errs) |-> errs[i][1]]

SensorReading_errors(sensor_id, value, unit) ==
    FieldNames(Errors(<< <<"sensor_id", Len(sensor_id) >= 1>>,
                         <<"unit", Len(unit) >= 1>> >>))

AlarmInfo_errors(alarm_id, severity, message) ==
    FieldNames(Errors(<< <<"alarm_id", Len(alarm_id) >= 1>>,
                         <<"severity", severity \in valid_severities>>,
                         <<"message", Len(message) >= 1>> >>))

EquipmentStatus_errors(equipment_id, name, status) ==
    FieldNames(Errors(<< <<"equipment_id", Len(equipment_id) >= 1>>,
                         <<"name", Len(name) >= 1>>,
                         <<"status", status \in valid_statuses>> >>))

ProductionMetrics_errors(line_id, shift, units_produced, units_target, efficiency_percent) ==
    FieldNames(Errors(<< <<"line_id", Len(line_id) >= 1>>,
                         <<"shift", Len(shift) >= 1>>,
                         <<"units_produced", units_produced >= 0>>,
                         <<"units_target", units_target >= 0>>,
                         <<"efficiency_percent", efficiency_percent.num >= 0>> >>))

----------------------------------------------------------------------------
(* scada_extraction_tools.py *)

\* _extract_field: the stripped capture of the first pattern, in list order,
\* that matches anywhere in the text; ExtractionError when none does.
RECURSIVE extract_field(_, _, _)
extract_field(text, patterns, i) ==
    IF i > Len(patterns) THEN [ok |-> FALSE, value |-> ""]
    ELSE LET m == Search(patterns[i], text, 1)
         IN  IF m.ok THEN [ok |-> TRUE, value |-> Strip(Group(text, m, 1))]
             ELSE extract_field(text, patterns, i + 1)

\* _extract_sensor_readings: every match of sensor_pattern in the whole
\* text (equipment_id is not used), the invalid ones dropped.
RECURSIVE sensor_readings_of(_, _, _)
sensor_readings_of(text, ms, i) ==
    IF i > Len(ms) THEN <<>>
    ELSE LET sensor_id == Strip(Group(text, ms[i], 1))
             value == PyFloat(Group(text, ms[i], 2)).value
             unit == Strip(Group(text, ms[i], 3))
             rest == sensor_readings_of(text, ms, i + 1)
         IN  IF SensorReading_errors(sensor_id, value, unit) = <<>>
             THEN <<[sensor_id |-> sensor_id, value |-> value, unit |-> unit]>> \o rest
             ELSE rest

\* _extract_sensor_readings reading the text from the block of the
\* equipment on.
extract_sensor_readings_OfBlock(text, equipment_id) ==
    LET m == Search(<<Lit("Equipment: " \o equipment_id)>>, text, 1)
    IN  sensor_readings_of(text,
                           FindIter(sensor_pattern, text, IF m.ok THEN m.start ELSE 1), 1)

extract_sensor_readings(text, equipment_id) ==
    sensor_readings_of(text, FindIter(sensor_pattern, text, 1), 1)

\* _extract_alarms that stops at the first alarm of unknown severity
\* (break where the code has continue).
RECURSIVE alarms_of_StopsAtUnknown(_, _, _)
alarms_of_StopsAtUnknown(text, ms, i) ==
    IF i > Len(ms) THEN <<>>
    ELSE IF LowerStr(Strip(Group(text, ms[i], 2))) \notin valid_severities THEN <<>>
    ELSE <<[alarm_id |-> Strip(Group(text, ms[i], 1)),
            severity |-> LowerStr(Strip(Group(text, ms[i], 2))),
            message |-> Strip(Group(text, ms[i], 3)), acknowledged |-> FALSE]>>
         \o alarms_of_StopsAtUnknown(text, ms, i + 1)

\* _extract_alarms: every match of alarm_pattern in the whole text, those
\* with an unknown severity or an invalid field dropped.
RECURSIVE alarms_of(_, _, _)
alarms_of(text, ms, i) ==
    IF i > Len(ms) THEN <<>>
    ELSE LET alarm_id == Strip(Group(text, ms[i], 1))
             severity_str == LowerStr(Strip(Group(text, ms[i], 2)))
             message == Strip(Group(text, ms[i], 3))
             rest == alarms_of(text, ms, i + 1)
         IN  IF severity_str \notin valid_severities THEN rest
             ELSE IF AlarmInfo_errors(alarm_id, severity_str, message) = <<>>
             THEN <<[alarm_id |-> alarm_id, severity |-> severity_str,
                     message |-> message, acknowledged |-> FALSE]>> \o rest
             ELSE rest

extract_alarms(text, equipment_id) ==
    alarms_of(text, FindIter(alarm_pattern, text, 1), 1)

\* _extract_equipment_status: one entry per match of equipment_pattern whose
\* status is a valid one and whose fields validate, in order of appearance.
RECURSIVE equipment_of(_, _, _)
equipment_of(text, ms, i) ==
    IF i > Len(ms) THEN <<>>
    ELSE LET equipment_id == Strip(Group(text, ms[i], 1))
             name == Strip(Group(text, ms[i], 2))
             status_str == LowerStr(Strip(Group(text, ms[i], 3)))
             rest == equipment_of(text, ms, i + 1)
         IN  IF status_str \notin valid_statuses THEN rest
             ELSE IF EquipmentStatus_errors(equipment_id, name, status_str) = <<>>
             THEN <<[equipment_id |-> equipment_id, name |-> name, status |-> status_str,
                     readings |-> extract_sensor_readings(text, equipment_id),
                     active_alarms |-> extract_alarms(text, equipment_id)]>> \o rest
             ELSE rest

extract_equipment_status(text) ==
    equipment_of(text, FindIter(equipment_pattern, text, 1), 1)

NoMetrics ==
    [line_id |-> "", shift |-> "", units_produced |-> 0, units_target |-> 0,
     efficiency_percent |-> [num |-> 0, scale |-> 0], equipment |-> <<>>]

\* The required fields, in the order _parse_scada_report extracts them.
RequiredFields ==
    <<"line_id", "shift", "units_produced", "units_target", "efficiency_percent">>

\* The fields _extract_field has been called for when the statement about
\* `field` raises: those up to it; all of them at the final validation.
Searched(field) ==
    IF field = "" THEN RequiredFields
    ELSE SubSeq(RequiredFields, 1,
                CHOOSE i \in 1..Len(RequiredFields) : RequiredFields[i] = field)

Raise(exc, field, errors) ==
    [exc |-> exc, field |-> field, errors |-> errors, metrics |-> NoMetrics,
     searched |-> Searched(field)]

\* ProductionMetrics(...) at the end of _parse_scada_report: the validated
\* metrics, or ValidationError with every invalid field.
validated_metrics(line_id, shift, units_produced, units_target, efficiency_percent, equipment, errors) ==
    IF errors # <<>> THEN Raise("ValidationError", "", errors)
    ELSE [exc |-> "", field |-> "", errors |-> <<>>, searched |-> RequiredFields,
          metrics |-> [line_id |-> line_id, shift |-> shift,
                       units_produced |-> units_produced, units_target |-> units_target,
                       efficiency_percent |-> efficiency_percent,
                       equipment |-> equipment]]

\* The statements of _parse_scada_report in their order, given the outcome
\* of each extraction and conversion: the first that raises ends the call.
parse_steps(line_id, shift, units_produced_str, units_produced, units_target_str, units_target, efficiency_str, efficiency_percent, equipment) ==
    IF ~line_id.ok THEN Raise("ExtractionError", "line_id", <<>>)
    ELSE IF ~shift.ok THEN Raise("ExtractionError", "shift", <<>>)
    ELSE IF ~units_produced_str.ok THEN Raise("ExtractionError", "units_produced", <<>>)
    ELSE IF ~units_produced.ok THEN Raise("ValueError", "units_produced", <<>>)
    ELSE IF ~units_target_str.ok THEN Raise("ExtractionError", "units_target", <<>>)
    ELSE IF ~units_target.ok THEN Raise("ValueError", "units_target", <<>>)
    ELSE IF ~efficiency_str.ok THEN Raise("ExtractionError", "efficiency_percent", <<>>)
    ELSE IF ~efficiency_percent.ok THEN Raise("ValueError", "efficiency_percent", <<>>)
    ELSE validated_metrics(line_id.value, shift.value, units_produced.value,
             units_target.value, efficiency_percent.value, equipment,
             ProductionMetrics_errors(line_id.value, shift.value, units_produced.value,
                 units_target.value, efficiency_percent.value))

\* int(units_produced_str), int(units_target_str), float(efficiency_str).
parse_fields(line_id, shift, units_produced_str, units_target_str, efficiency_str, equipment) ==
    parse_steps(line_id, shift, units_produced_str, PyInt(units_produced_str.value),
                units_target_str, PyInt(units_target_str.value),
                efficiency_str, PyFloat(efficiency_str.value), equipment)

\* The extractions of _parse_scada_report on the stripped text.
parse_text(text) ==
    parse_fields(extract_field(text, line_id_patterns, 1),
                 extract_field(text, shift_patterns, 1),
                 extract_field(text, units_produced_patterns, 1),
                 extract_field(text, units_target_patterns, 1),
                 extract_field(text, efficiency_patterns, 1),
                 extract_equipment_status(text))

\* _parse_scada_report: the metrics, or the exception that leaves it
\* (ExtractionError of the first field without a match, ValueError of a
\* conversion, ValidationError with every invalid field).
parse_scada_report(report_text) == parse_text(Strip(report_text))

\* _format_production_metrics: what the text shows of the metrics (the
\* efficiency with one decimal, the severity of an alarm in upper case).
format_alarms(alarms) ==
    [i \in 1..Len(alarms) |->
        [severity |-> UpperStr(alarms[i].severity), alarm_id |-> alarms[i].alarm_id,
         message |-> alarms[i].message, acknowledged |-> alarms[i].acknowledged]]

format_production_metrics(metrics) ==
    [line_id |-> metrics.line_id, shift |-> metrics.shift,
     units_produced |-> metrics.units_produced, units_target |-> metrics.units_target,
     efficiency |-> OneDecimal(metrics.efficiency_percent),
     equipment |-> [i \in 1..Len(metrics.equipment) |->
                      [equipment_id |-> metrics.equipment[i].equipment_id,
                       name |-> metrics.equipment[i].name,
                       status |-> metrics.equipment[i].status,
                       readings |-> metrics.equipment[i].readings,
                       active_alarms |-> format_alarms(metrics.equipment[i].active_alarms)]]]

NoText == format_production_metrics(NoMetrics)

Failure(kind, field, errors, searched) ==
    [kind |-> kind, field |-> field, errors |-> errors, metrics |-> NoMetrics,
     text |-> NoText, searched |-> searched]

\* The return statements of extract_scada_metrics, given how the parse
\* ended: the formatted metrics, or the text of the except clause that
\* catches the exception (ValidationError, ExtractionError, Exception).
returned_text(p) ==
    IF p.exc = "ValidationError" THEN Failure("ValidationFailure", "", p.errors, p.searched)
    ELSE IF p.exc = "ExtractionError" THEN Failure("MissingField", p.field, <<>>, p.searched)
    ELSE IF p.exc # "" THEN Failure("UnexpectedError", p.field, <<>>, p.searched)
    ELSE [kind |-> "Success", field |-> "", errors |-> <<>>, searched |-> p.searched,
          metrics |-> p.metrics, text |-> format_production_metrics(p.metrics)]

\* extract_scada_metrics that tests only `not report_text`, without the
\* strip().
extract_scada_metrics_NoStrip(report_text) ==
    IF report_text = "" THEN Failure("EmptyInput", "", <<>>, <<>>)
    ELSE returned_text(parse_scada_report(report_text))

\* extract_scada_metrics: the returned text, by kind: "EmptyInput",
\* "ValidationFailure" (with the invalid fields), "MissingField" (with the
\* field), "UnexpectedError" or "Success" (with the metrics and their text).
\* Every exception of the parse is caught: no call raises.
extract_scada_metrics(report_text) ==
    IF report_text = "" \/ Strip(report_text) = ""
    THEN Failure("EmptyInput", "", <<>>, <<>>)
    ELSE returned_text(parse_scada_report(report_text))

----------------------------------------------------------------------------
(* The reports given to extract_scada_metrics. *)

CanonicalReport ==
    "Production Line: LINE-001\nShift: Morning\nUnits Produced: 450\nTarget: 500\nEfficiency: 90%"

ReportTexts ==
    { "",
      "   ",
      " \n\t ",
      CanonicalReport,
      "Production Line: LINE-001\nUnits Produced: 450\nTarget: 500\nEfficiency: 90%",
      "Production Line: LINE-001\nShift: Morning\nUnits Produced: -5\nTarget: 500\nEfficiency: 90%",
      "Line: L2\nShift: Night\nProduced: 7\nUnits Target: 9\nEfficiency Percent: 77.5",
      "no metrics here",
      CanonicalReport \o "\nEquipment: P1 - Pump (Running)\nSensor: T1 = 72.5 C\nAlarm: A1 (high) - Overheat",
      CanonicalReport \o "\nEquipment: P2 - Fan (unknown)\nAlarm: A2 (bad) - x" }

NoResult == Failure("", "", <<>>, <<>>)

\* extract_scada_metrics on each report of ReportTexts.
ExtractResults == [t \in ReportTexts |-> extract_scada_metrics(t)]

----------------------------------------------------------------------------
(* Families of reports, built from their parts, with the values and the    *)
(* entries each one is written to carry.                                   *)

\* The lines of a report joined by newlines, the empty ones left out.
RECURSIVE JoinLines(_)
JoinLines(lines) ==
    IF lines = <<>> THEN ""
    ELSE IF Head(lines) = "" THEN JoinLines(Tail(lines))
    ELSE IF JoinLines(Tail(lines)) = "" THEN Head(lines)
    ELSE Head(lines) \o "\n" \o JoinLines(Tail(lines))

\* Empty and whitespace-only reports.
BlankReports == {"", " ", "   ", "\n", "\t", " \n\t ", "\r\n", "\n\n  \n"}

\* Well-formed values of the five required fields: the text written in the
\* report and the value it denotes.
LineIds == {"LINE-001", "A_7"}

Shifts == {"Morning", "night_2"}

ProducedValues == {[s |-> "450", n |-> 450], [s |-> "0", n |-> 0]}

TargetValues == {[s |-> "500", n |-> 500], [s |-> "007", n |-> 7]}

EfficiencyValues ==
    { [s |-> "90%", v |-> [num |-> 90, scale |-> 0]],
      [s |-> "87.5", v |-> [num |-> 875, scale |-> 1]],
      [s |-> "100.0%", v |-> [num |-> 100, scale |-> 0]],
      [s |-> "0.25", v |-> [num |-> 25, scale |-> 2]] }

\* The five required fields in the phrasing of the docstring example.
CanonicalInputs ==
    [line_id : LineIds, shift : Shifts, produced : ProducedValues,
     target : TargetValues, efficiency : EfficiencyValues]

CanonicalLines(i) ==
    <<"Production Line: " \o i.line_id, "Shift: " \o i.shift,
      "Units Produced: " \o i.produced.s, "Target: " \o i.target.s,
      "Efficiency: " \o i.efficiency.s>>

CanonicalText(i) == JoinLines(CanonicalLines(i))

\* The metrics a canonical report is written to carry.
CanonicalMetrics(i, equipment) ==
    [line_id |-> i.line_id, shift |-> i.shift, units_produced |-> i.produced.n,
     units_target |-> i.target.n, efficiency_percent |-> i.efficiency.v,
     equipment |-> equipment]

\* The input of CanonicalReport.
CanonicalInput ==
    [line_id |-> "LINE-001", shift |-> "Morning", produced |-> [s |-> "450", n |-> 450],
     target |-> [s |-> "500", n |-> 500],
     efficiency |-> [s |-> "90%", v |-> [num |-> 90, scale |-> 0]]]

\* s repeated n times.
RECURSIVE Repeat(_, _)
Repeat(s, n) ==
    IF n = 0 THEN ""
    ELSE IF n % 2 = 1 THEN s \o Repeat(s, n - 1)
    ELSE Repeat(s \o s, n \div 2)

\* A digit string one digit longer than int() converts.
LongDigits == Repeat("9", int_max_str_digits + 1)

\* Reports in which units_produced, or units_produced and units_target,
\* carry LongDigits.
LongProduced == [CanonicalInput EXCEPT !.produced = [s |-> LongDigits, n |-> 0]]

LongInputs ==
    {LongProduced, [LongProduced EXCEPT !.target = [s |-> LongDigits, n |-> 0]]}

\* Reports with some of the required fields left out: a title line, then
\* the canonical lines of input i whose field is in `present`.
PartialText(i, present) ==
    JoinLines(<<"Daily report">> \o
              [k \in 1..Len(RequiredFields) |->
                  IF RequiredFields[k] \in present THEN CanonicalLines(i)[k] ELSE ""])

AllFields == {RequiredFields[k] : k \in 1..Len(RequiredFields)}

FieldSets == SUBSET AllFields

\* The reports of PartialText: every set of fields of CanonicalInput, and
\* LongProduced without its efficiency line.
PartialCases ==
    ({CanonicalInput} \X FieldSets)
    \cup {<<LongProduced, AllFields \ {"efficiency_percent"}>>}

PartialReports == {PartialText(c[1], c[2]) : c \in PartialCases}

\* Reports whose units-produced field carries a negative integer.
NegativeInputs ==
    { [CanonicalInput EXCEPT !.produced = [s |-> "-5", n |-> 0 - 5]],
      [CanonicalInput EXCEPT !.produced = [s |-> "-450", n |-> 0 - 450],
                             !.shift = "night_2"] }

\* Equipment blocks: the line written in the report, and the entry it is
\* written to carry (status in lower case).
EquipmentBlocks ==
    { [equipment_id |-> "P1", name |-> "Pump", written |-> "Running", status |-> "running"],
      [equipment_id |-> "F-2", name |-> "Cooling Fan", written |-> "STOPPED",
       status |-> "stopped"],
      [equipment_id |-> "M3", name |-> "Mixer", written |-> "maintenance",
       status |-> "maintenance"],
      [equipment_id |-> "C4", name |-> "Conveyor", written |-> "Fault", status |-> "fault"],
      [equipment_id |-> "X5", name |-> "Press", written |-> "Unknown",
       status |-> "unknown"] }

BlockLine(b) ==
    "Equipment: " \o b.equipment_id \o " - " \o b.name \o " (" \o b.written \o ")"

\* The sequences of at most MaxBlocks elements of a set.
SeqsUpTo(S, n) == UNION {[1..k -> S] : k \in 0..n}

MaxBlocks == 2

BlockSeqs == SeqsUpTo(EquipmentBlocks, MaxBlocks)

EquipmentText(i, blocks) ==
    JoinLines(CanonicalLines(i) \o [k \in 1..Len(blocks) |-> BlockLine(blocks[k])])

\* Sensor readings and alarms: the line written in the report, and the
\* entry it is written to carry.
SubEntities ==
    { [kind |-> "sensor", line |-> "Sensor: T1 = 72.5 C", keyword |-> "",
       entry |-> [sensor_id |-> "T1", value |-> [num |-> 725, scale |-> 1], unit |-> "C"]],
      [kind |-> "alarm", line |-> "Alarm: A1 (high) - Overheat", keyword |-> "high",
       entry |-> [alarm_id |-> "A1", severity |-> "high", message |-> "Overheat",
                  acknowledged |-> FALSE]],
      [kind |-> "alarm", line |-> "Alarm: B2 (CRITICAL): Pressure drop",
       keyword |-> "critical",
       entry |-> [alarm_id |-> "B2", severity |-> "critical",
                  message |-> "Pressure drop", acknowledged |-> FALSE]],
      [kind |-> "alarm", line |-> "Alarm: A2 (severe) - Leak", keyword |-> "severe",
       entry |-> [alarm_id |-> "A2", severity |-> "severe", message |-> "Leak",
                  acknowledged |-> FALSE]],
      [kind |-> "alarm", line |-> "Alarm: Z9 (Unknown) - Check", keyword |-> "unknown",
       entry |-> [alarm_id |-> "Z9", severity |-> "unknown", message |-> "Check",
                  acknowledged |-> FALSE]] }

MaxSubEntities == 2

SubEntitySeqs == SeqsUpTo(SubEntities, MaxSubEntities)

\* The block every report of sub-entities has.
PumpBlock == CHOOSE b \in EquipmentBlocks : b.equipment_id = "P1"

SubEntityText(entries) ==
    JoinLines(CanonicalLines(CanonicalInput) \o <<BlockLine(PumpBlock)>> \o
              [k \in 1..Len(entries) |-> entries[k].line])

\* Reports in which a field is written twice, in two phrasings: `first` and
\* `second` are the two lines in the order of the text, the other fields are
\* the ones of CanonicalReport.
TwiceText(first, second) ==
    JoinLines(<<first, second, "Shift: Morning", "Units Produced: 450", "Target: 500",
                "Efficiency: 90%">>)

\* "Production Line:" and the bare "Line:", in both orders.
LinePhrasings ==
    { TwiceText("Production Line: LINE-001", "Line: L2"),
      TwiceText("Line: L2", "Production Line: LINE-001") }

\* A phrasing of a later pattern of the list written before a phrasing of
\* the first pattern: "line_id:" before "Production Line:", "Produced:"
\* before "Units Produced:" (whose own line is then there twice).
LaterPatternFirst ==
    { TwiceText("line_id: B7", "Production Line: LINE-001"),
      TwiceText("Production Line: LINE-001", "Produced: 3") }

\* Equipment blocks, sensor readings and alarms in any order after the
\* required fields: two blocks of known status with one reading and one
\* alarm, and a block of unknown status with the same two.
KeptItems ==
    {b \in EquipmentBlocks : b.equipment_id \in {"P1", "C4"}}
    \cup {e \in SubEntities : e.kind = "sensor" \/ e.keyword = "high"}

DroppedItems ==
    {b \in EquipmentBlocks : b.equipment_id = "X5"}
    \cup {e \in SubEntities : e.kind = "sensor" \/ e.keyword = "high"}

\* The elements of a set, some or all of them, in every order.
Arrangements(S) ==
    {seq \in SeqsUpTo(S, Cardinality(S)) :
        \A a \in 1..Len(seq), b \in 1..Len(seq) : a # b => seq[a] # seq[b]}

ItemSeqs == Arrangements(KeptItems) \cup Arrangements(DroppedItems)

IsBlock(x) == "status" \in DOMAIN x

ItemLine(x) == IF IsBlock(x) THEN BlockLine(x) ELSE x.line

DocumentText(items) ==
    JoinLines(CanonicalLines(CanonicalInput) \o
              [k \in 1..Len(items) |-> ItemLine(items[k])])

\* Every report of the families, and those of ReportTexts.
Reports ==
    LinePhrasings \cup LaterPatternFirst \cup
    {DocumentText(items) : items \in ItemSeqs} \cup
    BlankReports
    \cup {CanonicalText(i) : i \in CanonicalInputs}
    \cup PartialReports
    \cup {CanonicalText(i) : i \in NegativeInputs}
    \cup {CanonicalText(i) : i \in LongInputs}
    \cup {EquipmentText(CanonicalInput, blocks) : blocks \in BlockSeqs}
    \cup {SubEntityText(entries) : entries \in SubEntitySeqs}
    \cup ReportTexts

\* extract_scada_metrics on each report of Reports.
ReportResults == [t \in Reports |-> extract_scada_metrics(t)]

----------------------------------------------------------------------------
(* The record of the last call. *)

NoCall ==
    [op |-> "none", arg |-> "", ret |-> "", message |-> "", handle |-> None,
     probe |-> "", probed |-> 0, built |-> 0, pre |-> NoRouter, pre_agent |-> None,
     pre_ui |-> "local"]

\* The record of a call made in the current state; probe is the outcome of
\* the connectivity probe when the call ran one, "" otherwise.
Call(op, arg, ret, message, handle, probe, probed, built) ==
    [op |-> op, arg |-> arg, ret |-> ret, message |-> message, handle |-> handle,
     probe |-> IF probed = 1 THEN probe ELSE "", probed |-> probed, built |-> built,
     pre |-> model_router, pre_agent |-> strands_agent,
     pre_ui |-> session_state.model_mode]

\* 1 when the call ran a probe and it failed.
Failed(probe, probed) == IF probed = 1 /\ ~check_connectivity(probe) THEN 1 ELSE 0

----------------------------------------------------------------------------
(* session_manager.py.  A path is the sequence of its components below the *)
(* working directory; the disk is the set of its directories and the set   *)
(* of its files.                                                           *)

\* The pieces of s between its "/" characters.
RECURSIVE Pieces(_, _, _)
Pieces(s, i, piece) ==
    IF i > Len(s) THEN <<piece>>
    ELSE IF CharAt(s, i) = "/" THEN <<piece>> \o Pieces(s, i + 1, "")
    ELSE Pieces(s, i + 1, piece \o CharAt(s, i))

\* Path(s) for a relative s: its components, the empty ones and "." left
\* out ("./a//b/" is a/b).
PurePath(s) == SelectSeq(Pieces(s, 1, ""), LAMBDA c : c # "" /\ c # ".")

\* path / s
JoinPath(path, s) == path \o PurePath(s)

\* The path and its ancestors below the working directory.
Prefixes(path) == {SubSeq(path, 1, k) : k \in 1..Len(path)}

EmptyDisk == [dirs |-> {}, files |-> {}]

IsDir(fs, path) == path = <<>> \/ path \in fs.dirs

\* Path.mkdir(parents=False, exist_ok=True): FileNotFoundError when the
\* parent is missing.
mkdir_NoParents(fs, path) ==
    IF IsDir(fs, path) THEN [fs |-> fs, raised |-> FALSE]
    ELSE IF path \in fs.files \/ ~IsDir(fs, SubSeq(path, 1, Len(path) - 1))
    THEN [fs |-> fs, raised |-> TRUE]
    ELSE [fs |-> [fs EXCEPT !.dirs = @ \cup {path}], raised |-> FALSE]

\* Path.mkdir(parents=True, exist_ok=True): nothing to do when the path is
\* a directory; FileExistsError or NotADirectoryError when the path or an
\* ancestor is a file; else the path and its missing ancestors are made.
mkdir(fs, path) ==
    IF IsDir(fs, path) THEN [fs |-> fs, raised |-> FALSE]
    ELSE IF Prefixes(path) \cap fs.files # {} THEN [fs |-> fs, raised |-> TRUE]
    ELSE [fs |-> [fs EXCEPT !.dirs = @ \cup Prefixes(path)], raised |-> FALSE]

\* The n-th FileSessionManager constructed.
FileSessionManager(session_id, storage_dir, n) ==
    [kind |-> "FileSessionManager", id |-> n, session_id |-> session_id,
     storage_dir |-> storage_dir]

\* The outcome of create_session_manager once the directory is made.
created(made, session_id, storage_dir, n) ==
    IF made.raised THEN [fs |-> made.fs, raised |-> TRUE, manager |-> None, built |-> 0]
    ELSE [fs |-> made.fs, raised |-> FALSE, built |-> 1,
          manager |-> FileSessionManager(session_id, PurePath(storage_dir), n)]

\* create_session_manager(session_id, storage_dir), the n-th construction.
create_session_manager(fs, session_id, storage_dir, n) ==
    created(mkdir(fs, PurePath(storage_dir)), session_id, storage_dir, n)

\* EdgeSessionManager.__init__
EdgeSessionManager(session_id, storage_dir) ==
    [session_id |-> session_id, storage_dir |-> storage_dir, session_manager |-> None]

\* The outcome of the session_manager property once the manager is made.
assigned(m, c) ==
    [fs |-> c.fs, raised |-> c.raised, built |-> c.built, ret |-> c.manager,
     manager |-> IF c.raised THEN m ELSE [m EXCEPT !.session_manager = c.manager]]

\* The session_manager property without its `is None` test.
session_manager_Always(fs, m, n) ==
    assigned(m, create_session_manager(fs, m.session_id, m.storage_dir, n))

\* EdgeSessionManager.session_manager (property)
session_manager(fs, m, n) ==
    IF m.session_manager = None
    THEN assigned(m, create_session_manager(fs, m.session_id, m.storage_dir, n))
    ELSE [fs |-> fs, raised |-> FALSE, built |-> 0, ret |-> m.session_manager,
          manager |-> m]

\* EdgeSessionManager.get_session_path
get_session_path(m) == JoinPath(PurePath(m.storage_dir), "session_" \o m.session_id)

\* Path.exists(): a file or a directory is at the path.
exists(fs, path) == path \in fs.files \/ IsDir(fs, path)

\* session_exists() asking for the storage directory instead of the
\* session file.
session_exists_StorageDir(fs, m) == exists(fs, PurePath(m.storage_dir))

\* EdgeSessionManager.session_exists
session_exists(fs, m) == exists(fs, get_session_path(m) \o <<"session.json">>)

\* The arguments of the calls.
SessionIds == {"s1", "s2"}

StorageDirs == {"./edge_sessions", "level1/level2/sessions/", "blocked/sessions"}

\* The session and the directory of get_agent() (app.py).
AppSessionId == "edge-operator-001"

AppSessionsDir == "./edge_sessions"

\* The disks a run starts from: empty, the directory or a parent already
\* there, a file where the directory or a parent should be, the session s1
\* persisted by an earlier run, a directory at the place of the session file
\* of s2.
InitialDisks ==
    { EmptyDisk,
      [dirs |-> {<<"edge_sessions">>, <<"edge_sessions", "session_s2">>,
                 <<"edge_sessions", "session_s2", "session.json">>},
       files |-> {}],
      [dirs |-> {<<"edge_sessions">>, <<"edge_sessions", "session_s1">>},
       files |-> {<<"edge_sessions", "session_s1", "session.json">>}],
      [dirs |-> {<<"edge_sessions">>}, files |-> {}],
      [dirs |-> {<<"level1">>}, files |-> {}],
      [dirs |-> {}, files |-> {<<"blocked">>}],
      [dirs |-> {}, files |-> {<<"edge_sessions">>}] }

\* The session ids an EdgeSessionManager is constructed with: any string is
\* taken, a path separator included.
PathIds == SessionIds \cup {"s1/", "s1/x"}

MaxManagers == 2

\* The length of a run of session_manager.py.
MaxSessionCalls == 3

\* The record of the last call of session_manager.py.
NoSessionCall ==
    [op |-> "none", manager |-> 0, storage_dir |-> "", raised |-> FALSE, ret |-> None,
     built |-> 0, pre_fs |-> EmptyDisk, pre_managers |-> <<>>]

SessionCall(op, manager, storage_dir, raised, ret, built) ==
    [op |-> op, manager |-> manager, storage_dir |-> storage_dir, raised |-> raised,
     ret |-> ret, built |-> built, pre_fs |-> filesystem, pre_managers |-> edge_managers]

----------------------------------------------------------------------------
(* iot_devices.py, device_registry.py and iot_tools.py.  The registry is   *)
(* the sequence of its devices in the order of registration.               *)

\* x in seq
InSeq(x, seq) == \E k \in 1..Len(seq) : seq[k] = x

\* sep.join(strings)
RECURSIVE Join(_, _)
Join(sep, strings) ==
    IF strings = <<>> THEN ""
    ELSE IF Len(strings) = 1 THEN strings[1]
    ELSE strings[1] \o sep \o Join(sep, Tail(strings))

\* SensorDevice(...): __post_init__ sets device_type.  The bounds of the
\* range are whole numbers.
SensorDevice(device_id, location, unit, min_value, max_value) ==
    [class |-> "SensorDevice", device_id |-> device_id, device_type |-> "sensor",
     location |-> location, unit |-> unit, min_value |-> min_value,
     max_value |-> max_value]

\* ActuatorDevice(...): __post_init__ sets device_type and, when no
\* current_state is given, takes the first state.
ActuatorDevice(device_id, location, states, current_state) ==
    [class |-> "ActuatorDevice", device_id |-> device_id, device_type |-> "actuator",
     location |-> location, states |-> states,
     current_state |-> IF states # <<>> /\ current_state = "" THEN states[1]
                       ELSE current_state]

\* ActuatorDevice.set_state
set_state(device, new_state) ==
    IF InSeq(new_state, device.states)
    THEN [device |-> [device EXCEPT !.current_state = new_state], ret |-> TRUE]
    ELSE [device |-> device, ret |-> FALSE]

\* ActuatorDevice.get_valid_actions
get_valid_actions(device) == device.states

\* DeviceRegistry.register: a device of the same id is replaced in place.
register(registry, device) ==
    IF \E i \in 1..Len(registry) : registry[i].device_id = device.device_id
    THEN [i \in 1..Len(registry) |->
             IF registry[i].device_id = device.device_id THEN device ELSE registry[i]]
    ELSE Append(registry, device)

\* DeviceRegistry.get
get(registry, device_id) ==
    IF \E i \in 1..Len(registry) : registry[i].device_id = device_id
    THEN registry[CHOOSE i \in 1..Len(registry) : registry[i].device_id = device_id]
    ELSE None

\* DeviceRegistry.list_device_ids
list_device_ids(registry) == [i \in 1..Len(registry) |-> registry[i].device_id]

\* create_default_registry(): two sensors and the valve.
create_default_registry ==
    register(register(register(<<>>,
        SensorDevice("temp-sensor", "Production Floor - Zone A", "C", -10, 50)),
        SensorDevice("humidity-sensor", "Production Floor - Zone A", "%", 0, 100)),
        ActuatorDevice("valve-actuator", "Cooling System - Main Line",
                       <<"open", "closed", "partial">>, "closed"))

\* What a tool gives back: the registry after the call, the kind of answer,
\* the text up to the time stamp, the state reported as the previous one.
ToolResult(registry, kind, text, previous_state) ==
    [registry |-> registry, kind |-> kind, text |-> text,
     previous_state |-> previous_state]

NotFound(registry, device_id) ==
    ToolResult(registry, "NotFound",
               "Error: Device '" \o device_id \o "' not found. Available devices: "
                  \o Join(", ", list_device_ids(registry)), "")

\* The end of control_device: the state is set and the answer written.
controlled(registry, device, s, action, previous_state) ==
    IF s.ret
    THEN ToolResult(register(registry, s.device), "Success",
                    "Device Control Successful:\n"
                       \o "  Device ID: " \o s.device.device_id \o "\n"
                       \o "  Type: " \o s.device.device_type \o "\n"
                       \o "  Location: " \o s.device.location \o "\n"
                       \o "  Previous State: " \o previous_state \o "\n"
                       \o "  New State: " \o s.device.current_state \o "\n"
                       \o "  Timestamp: ", previous_state)
    ELSE ToolResult(register(registry, s.device), "Failed",
                    "Error: Failed to set device '" \o device.device_id
                       \o "' to state '" \o action \o "'.", "")

\* control_device on the device found under device_id.
control_found(registry, device, device_id, action) ==
    IF device.class # "ActuatorDevice"
    THEN ToolResult(registry, "NotActuator",
                    "Error: Device '" \o device_id \o "' is not an actuator. It is a "
                       \o device.device_type \o ".", "")
    ELSE IF ~InSeq(action, get_valid_actions(device))
    THEN ToolResult(registry, "InvalidAction",
                    "Error: Invalid action '" \o action \o "' for device '" \o device_id
                       \o "'.\nValid actions: " \o Join(", ", get_valid_actions(device)), "")
    ELSE controlled(registry, device, set_state(device, action), action,
                    device.current_state)

\* control_device with no test of the action.
control_device_AnyAction(registry, device_id, action) ==
    IF get(registry, device_id) = None THEN NotFound(registry, device_id)
    ELSE IF get(registry, device_id).class # "ActuatorDevice"
    THEN control_found(registry, get(registry, device_id), device_id, action)
    ELSE controlled(registry, get(registry, device_id),
                    [device |-> [get(registry, device_id) EXCEPT !.current_state = action],
                     ret |-> TRUE], action,
                    get(registry, device_id).current_state)

\* control_device(device_id, action)
control_device(registry, device_id, action) ==
    IF get(registry, device_id) = None THEN NotFound(registry, device_id)
    ELSE control_found(registry, get(registry, device_id), device_id, action)

\* read_sensor(device_id), the sensor giving `reading`.
read_sensor(registry, device_id, reading) ==
    IF get(registry, device_id) = None THEN NotFound(registry, device_id)
    ELSE IF get(registry, device_id).class # "SensorDevice"
    THEN ToolResult(registry, "NotSensor",
                    "Error: Device '" \o device_id \o "' is not a sensor. It is a "
                       \o get(registry, device_id).device_type \o ".", "")
    ELSE ToolResult(registry, "Reading",
                    "Sensor Reading:\n"
                       \o "  Device ID: " \o get(registry, device_id).device_id \o "\n"
                       \o "  Type: " \o get(registry, device_id).device_type \o "\n"
                       \o "  Location: " \o get(registry, device_id).location \o "\n"
                       \o "  Value: " \o reading \o " "
                       \o get(registry, device_id).unit \o "\n"
                       \o "  Timestamp: ", "")

\* The lines list_devices() writes for one device, but for the range of a
\* sensor.
device_lines(device) ==
    <<"\nDevice ID: " \o device.device_id, "  Type: " \o device.device_type,
      "  Location: " \o device.location>>
    \o IF device.class = "SensorDevice" THEN <<"  Unit: " \o device.unit>>
       ELSE <<"  Valid States: " \o Join(", ", device.states),
              "  Current State: " \o device.current_state>>

RECURSIVE all_device_lines(_)
all_device_lines(registry) ==
    IF registry = <<>> THEN <<>>
    ELSE device_lines(Head(registry)) \o all_device_lines(Tail(registry))

\* list_devices(), the count of the last line left out.
list_devices(registry) ==
    IF registry = <<>>
    THEN ToolResult(registry, "Empty", "No devices registered in the system.", "")
    ELSE ToolResult(registry, "Listing",
                    Join("\n", <<"Available IoT Devices:", Repeat("=", 40)>>
                                  \o all_device_lines(registry)
                                  \o <<"\n" \o Repeat("=", 40)>>), "")

\* The threads that call one ModelRouter, and the calls each one makes.
MaxThreads == 2

MaxThreadCalls == 2

Threads == 1..MaxThreads

\* A thread outside a call: pc is its position, op the call it is in, handle
\* its local reference to a model, ret what its last call returned, n the
\* calls it has made.
IdleThread == [pc |-> "idle", op |-> "", handle |-> None, ret |-> "", n |-> 0]

\* The arguments of the tools: the three registered ids and an unknown one;
\* the three states of the valve, a state in capitals, a state after a
\* space, the empty string and a word that is no state.
DeviceIdArgs == {"temp-sensor", "humidity-sensor", "valve-actuator", "pump-1"}

ActionArgs == {"open", "closed", "partial", "OPEN", " open", "", "toggle"}

\* Readings of a sensor, as round(random.uniform(min, max), 2) prints them.
ReadingTexts == {"0.0", "21.37", "50.0"}

\* The record of the last call of an IoT tool.
NoDeviceCall ==
    [op |-> "none", device_id |-> "", action |-> "", kind |-> "", text |-> "",
     previous_state |-> "", pre |-> <<>>]

DeviceCall(op, device_id, action, result) ==
    [op |-> op, device_id |-> device_id, action |-> action, kind |-> result.kind,
     text |-> result.text, previous_state |-> result.previous_state,
     pre |-> default_registry]

\* Bound on the events of one agent.stream_async(message).
MaxEvents == 3

\* The events of stream_async: two text events, a text event with no text
\* and an event without the 'data' key.
StreamEvents ==
    {[key |-> "data", data |-> "Valve"], [key |-> "data", data |-> " open"],
     [key |-> "data", data |-> ""], [key |-> "current_tool_use", data |-> ""]}

EventSeqs == UNION {[1..n -> StreamEvents] : n \in 0..MaxEvents}

\* How stream_async ends: exhausted, or with an exception.
StreamEndings == {"end", "raise"}

ErrorText == "I encountered an error processing your request: <e>"

\* The texts stream_chat yields for the events: the 'data' of every event
\* that has a non-empty one.
RECURSIVE texts_of(_)
texts_of(events) ==
    IF events = <<>> THEN <<>>
    ELSE LET event == Head(events)
         IN  (IF event.key = "data" /\ event.data # "" THEN <<event.data>> ELSE <<>>)
             \o texts_of(Tail(events))

\* EdgeOperatorAgent.stream_chat: the chunks it yields when self.agent
\* raised, or when stream_async gave the events and then ended; every
\* exception is caught and yielded as one more chunk.
stream_chat(raised, events, ending) ==
    IF raised THEN <<ErrorText>>
    ELSE texts_of(events) \o (IF ending = "raise" THEN <<ErrorText>> ELSE <<>>)

\* No stream_agent_response running: producer and consumer are the positions
\* of the thread and of the generator, pending the chunks stream_chat has
\* still to yield, chunks all the chunks of the stream, yielded the chunks
\* the generator has yielded.
NoStream ==
    [producer |-> "idle", consumer |-> "idle", text_queue |-> <<>>,
     done_event |-> FALSE, error_holder |-> "", pending |-> <<>>, chunks |-> <<>>,
     yielded |-> <<>>]

\* Where the generator goes after reading done_event in the loop condition
\* `not done_event.is_set() or not text_queue.empty()`.
after_done_test_DoneOnly(is_set) == IF ~is_set THEN "get" ELSE "join"

after_done_test(is_set) == IF ~is_set THEN "get" ELSE "test_empty"

\* The parts outside the router, the agent, the UI, the extraction and
\* session_manager.py, when the modules are loaded.
RestInit ==
    /\ default_registry = create_default_registry
    /\ device_call = NoDeviceCall
    /\ threads = [t \in Threads |-> IdleThread]
    /\ stream = NoStream

----------------------------------------------------------------------------
(* State machine *)

\* The state after init_session_state(): no agent yet, the UI on local mode.
Init ==
    /\ session_state = [agent |-> "None", model_mode |-> "local"]
    /\ model_router = NoRouter
    /\ strands_agent = None
    /\ probes = 0
    /\ probe_failures = 0
    /\ constructions = 0
    /\ calls = 0
    /\ extraction = [report_text |-> "", result |-> NoResult]
    /\ last = NoCall
    /\ filesystem = EmptyDisk
    /\ edge_managers = <<>>
    /\ session_managers = {}
    /\ session_call = NoSessionCall
    /\ RestInit

\* EdgeOperatorAgent.__init__ makes its session manager with
\* create_session_manager(config.session_id, config.sessions_dir).
AgentSessionManager ==
    LET c == create_session_manager(filesystem, AppSessionId, AppSessionsDir,
                                    Cardinality(session_managers) + 1)
    IN  /\ filesystem' = c.fs
        /\ session_managers' = session_managers \cup ({c.manager} \ {None})
        /\ session_call' = SessionCall("create_session_manager", 0, AppSessionsDir,
                                       c.raised, c.manager, c.built)
        /\ UNCHANGED edge_managers

\* get_agent() of the UI: EdgeOperatorAgent(config) on first use, which
\* constructs the ModelRouter.
GetAgent ==
    /\ calls < MaxCalls
    /\ session_state.agent = "None"
    /\ session_state' = [session_state EXCEPT !.agent = "EdgeOperatorAgent"]
    /\ model_router' = ModelRouterInit
    /\ strands_agent' = None
    /\ calls' = calls + 1
    /\ last' = Call("__init__", "", "", "", None, "", 0, 0)
    /\ AgentSessionManager
    /\ UNCHANGED <<probes, probe_failures, constructions, extraction>>
    /\ UNCHANGED rest_vars

\* model_router.set_mode(mode), called on the router directly.
SetMode ==
    /\ calls < MaxCalls
    /\ session_state.agent # "None"
    /\ \E mode \in ModeArgs, probe \in ProbeOutcomes, ctor \in CtorOutcomes :
         LET s == set_mode(model_router, mode, probe, ctor, constructions + 1)
         IN  /\ model_router' = s.router
             /\ probes' = probes + s.probed
             /\ probe_failures' = probe_failures + Failed(probe, s.probed)
             /\ constructions' = constructions + s.built
             /\ last' = Call("set_mode", mode, s.ret, "", None, probe, s.probed, s.built)
    /\ calls' = calls + 1
    /\ UNCHANGED <<session_state, strands_agent, extraction, session_vars>>
    /\ UNCHANGED rest_vars

\* model_router.get_model(), called on the router directly.
GetModel ==
    /\ calls < MaxCalls
    /\ session_state.agent # "None"
    /\ \E ctor \in CtorOutcomes :
         LET g == get_model(model_router, ctor, constructions + 1)
         IN  /\ model_router' = g.router
             /\ constructions' = constructions + g.built
             /\ last' = Call("get_model", "", IF g.raised THEN "raised" ELSE "handle",
                             "", g.handle, "", 0, g.built)
    /\ calls' = calls + 1
    /\ UNCHANGED <<session_state, strands_agent, probes, probe_failures, extraction,
                   session_vars>>
    /\ UNCHANGED rest_vars

\* agent.set_model_mode(mode), called on the EdgeOperatorAgent.
SetModelMode ==
    /\ calls < MaxCalls
    /\ session_state.agent # "None"
    /\ \E mode \in ModeArgs, probe \in ProbeOutcomes, ctor \in CtorOutcomes :
         LET s == set_model_mode(model_router, strands_agent, mode, probe, ctor,
                                 constructions + 1)
         IN  /\ model_router' = s.router
             /\ strands_agent' = s.agent
             /\ probes' = probes + s.probed
             /\ probe_failures' = probe_failures + Failed(probe, s.probed)
             /\ constructions' = constructions + s.built
             /\ last' = Call("set_model_mode", mode, s.ret, s.message, None,
                             probe, s.probed, s.built)
    /\ calls' = calls + 1
    /\ UNCHANGED <<session_state, extraction, session_vars>>
    /\ UNCHANGED rest_vars

\* agent.chat(message): the Agent is created on first use; every exception
\* is caught and returned as text.
Chat ==
    /\ calls < MaxCalls
    /\ session_state.agent # "None"
    /\ \E ctor \in CtorOutcomes :
         LET p == agent_property(model_router, strands_agent, ctor, constructions + 1)
         IN  /\ model_router' = p.router
             /\ strands_agent' = p.agent
             /\ constructions' = constructions + p.built
             /\ last' = Call("chat", "", "text", "", None, "", 0, p.built)
    /\ calls' = calls + 1
    /\ UNCHANGED <<session_state, probes, probe_failures, extraction, session_vars>>
    /\ UNCHANGED rest_vars

\* st.session_state.model_mode after render_sidebar asked the agent for
\* new_mode: the selection on success, "local" on failure, left alone when
\* the call raised.
shown_mode_AsSelected(model_mode, new_mode, ret) ==
    IF ret = "raised" THEN model_mode ELSE new_mode

shown_mode(model_mode, new_mode, ret) ==
    IF ret = "raised" THEN model_mode
    ELSE IF ret = "True" THEN new_mode
    ELSE "local"

\* render_sidebar() of the UI with the radio on `selected`: when the selection
\* differs from st.session_state.model_mode the agent is fetched (created on
\* first use) and asked to switch; model_mode follows the answer.  An
\* exception leaves render_sidebar before model_mode is assigned.
RenderSidebar ==
    /\ calls < MaxCalls
    /\ \E new_mode \in Modes, probe \in ProbeOutcomes, ctor \in CtorOutcomes :
         IF new_mode # session_state.model_mode
         THEN LET r == IF session_state.agent = "None" THEN ModelRouterInit
                       ELSE model_router
                  s == set_model_mode(r, strands_agent, new_mode, probe, ctor,
                                      constructions + 1)
              IN  /\ model_router' = s.router
                  /\ strands_agent' = s.agent
                  /\ probes' = probes + s.probed
                  /\ probe_failures' = probe_failures + Failed(probe, s.probed)
                  /\ constructions' = constructions + s.built
                  /\ session_state' =
                        [agent |-> "EdgeOperatorAgent",
                         model_mode |-> shown_mode(session_state.model_mode, new_mode,
                                                   s.ret)]
                  /\ last' = Call("render_sidebar", new_mode, s.ret, s.message, None,
                                  probe, s.probed, s.built)
                  /\ IF session_state.agent = "None" THEN AgentSessionManager
                     ELSE UNCHANGED session_vars
         ELSE /\ last' = Call("render_sidebar", new_mode, "skip", "", None, "", 0, 0)
              /\ UNCHANGED <<session_state, model_router, strands_agent, probes,
                             probe_failures, constructions, session_vars>>
    /\ calls' = calls + 1
    /\ UNCHANGED extraction
    /\ UNCHANGED rest_vars

\* extract_scada_metrics(report_text), the tool, on a report of ReportTexts.
\* It reads and writes nothing of the router, the agent or the UI.
Extract ==
    /\ calls < MaxCalls
    /\ \E report_text \in ReportTexts :
         LET result == ExtractResults[report_text]
         IN  /\ extraction' = [report_text |-> report_text, result |-> result]
             /\ last' = Call("extract_scada_metrics", "", result.kind, "", None, "", 0, 0)
    /\ calls' = calls + 1
    /\ UNCHANGED <<session_state, model_router, strands_agent, probes, probe_failures,
                   constructions, session_vars>>
    /\ UNCHANGED rest_vars

\* extract_scada_metrics(report_text) on a report of the families.
ExtractReport ==
    /\ \E report_text \in Reports :
         LET result == ReportResults[report_text]
         IN  /\ extraction' = [report_text |-> report_text, result |-> result]
             /\ last' = Call("extract_scada_metrics", "", result.kind, "", None, "", 0, 0)
    /\ UNCHANGED <<session_state, model_router, strands_agent, probes, probe_failures,
                   constructions, calls, session_vars>>
    /\ UNCHANGED rest_vars

Next ==
    \/ GetAgent
    \/ SetMode
    \/ GetModel
    \/ SetModelMode
    \/ Chat
    \/ RenderSidebar
    \/ Extract

Spec == Init /\ [][Next]_vars

\* The Streamlit UI alone: the sidebar's mode selections and the chat input,
\* the only callers of the agent in app.py and streamlit_app.py.
UINext ==
    \/ GetAgent
    \/ Chat
    \/ RenderSidebar

UISpec == Init /\ [][UINext]_vars

\* The EdgeOperatorAgent alone, under set_model_mode and chat calls.
AgentNext ==
    \/ GetAgent
    \/ SetModelMode
    \/ Chat

AgentSpec == Init /\ [][AgentNext]_vars

\* The extraction alone, on every report of the families.
ExtractSpec == Init /\ [][ExtractReport]_vars

\* The router, the agent, the UI and the extraction, left alone by
\* session_manager.py.
app_vars == <<session_state, model_router, strands_agent, probes, probe_failures,
              constructions, extraction, last, rest_vars>>

\* A run of session_manager.py starts on one of the disks of InitialDisks.
SessionInit ==
    /\ session_state = [agent |-> "None", model_mode |-> "local"]
    /\ model_router = NoRouter
    /\ strands_agent = None
    /\ probes = 0
    /\ probe_failures = 0
    /\ constructions = 0
    /\ calls = 0
    /\ extraction = [report_text |-> "", result |-> NoResult]
    /\ last = NoCall
    /\ filesystem \in InitialDisks
    /\ edge_managers = <<>>
    /\ session_managers = {}
    /\ session_call = NoSessionCall
    /\ RestInit

\* create_session_manager(session_id, storage_dir), called directly.
CreateSessionManager ==
    /\ calls < MaxSessionCalls
    /\ \E session_id \in SessionIds, storage_dir \in StorageDirs :
         LET c == create_session_manager(filesystem, session_id, storage_dir,
                                         Cardinality(session_managers) + 1)
         IN  /\ filesystem' = c.fs
             /\ session_managers' = session_managers \cup ({c.manager} \ {None})
             /\ session_call' = SessionCall("create_session_manager", 0, storage_dir,
                                            c.raised, c.manager, c.built)
    /\ calls' = calls + 1
    /\ UNCHANGED <<edge_managers, app_vars>>

\* EdgeSessionManager(session_id, storage_dir)
NewEdgeSessionManager ==
    /\ calls < MaxSessionCalls
    /\ Len(edge_managers) < MaxManagers
    /\ \E session_id \in SessionIds, storage_dir \in StorageDirs :
         /\ edge_managers' = Append(edge_managers,
                                    EdgeSessionManager(session_id, storage_dir))
         /\ session_call' = SessionCall("__init__", Len(edge_managers) + 1, storage_dir,
                                        FALSE, None, 0)
    /\ calls' = calls + 1
    /\ UNCHANGED <<filesystem, session_managers, app_vars>>

\* A read of the session_manager property of the k-th EdgeSessionManager.
SessionManagerProperty ==
    /\ calls < MaxSessionCalls
    /\ \E k \in 1..Len(edge_managers) :
         LET a == session_manager(filesystem, edge_managers[k],
                                  Cardinality(session_managers) + 1)
         IN  /\ filesystem' = a.fs
             /\ edge_managers' = [edge_managers EXCEPT ![k] = a.manager]
             /\ session_managers' =
                    IF a.built = 1 THEN session_managers \cup {a.ret}
                    ELSE session_managers
             /\ session_call' = SessionCall("session_manager", k,
                                            edge_managers[k].storage_dir,
                                            a.raised, a.ret, a.built)
    /\ calls' = calls + 1
    /\ UNCHANGED app_vars

\* get_session_path() of the k-th EdgeSessionManager.
GetSessionPath ==
    /\ calls < MaxSessionCalls
    /\ \E k \in 1..Len(edge_managers) :
         session_call' = SessionCall("get_session_path", k, edge_managers[k].storage_dir,
                                     FALSE, get_session_path(edge_managers[k]), 0)
    /\ calls' = calls + 1
    /\ UNCHANGED <<filesystem, edge_managers, session_managers, app_vars>>

\* session_exists() of the k-th EdgeSessionManager.
SessionExists ==
    /\ calls < MaxSessionCalls
    /\ \E k \in 1..Len(edge_managers) :
         session_call' = SessionCall("session_exists", k, edge_managers[k].storage_dir,
                                     FALSE, session_exists(filesystem, edge_managers[k]), 0)
    /\ calls' = calls + 1
    /\ UNCHANGED <<filesystem, edge_managers, session_managers, app_vars>>

\* Two EdgeSessionManager objects constructed, on any ids and directories.
PathInit ==
    /\ session_state = [agent |-> "None", model_mode |-> "local"]
    /\ model_router = NoRouter
    /\ strands_agent = None
    /\ probes = 0
    /\ probe_failures = 0
    /\ constructions = 0
    /\ calls = 0
    /\ extraction = [report_text |-> "", result |-> NoResult]
    /\ last = NoCall
    /\ filesystem = EmptyDisk
    /\ \E a \in PathIds, b \in PathIds, d \in StorageDirs, e \in StorageDirs :
          edge_managers = <<EdgeSessionManager(a, d), EdgeSessionManager(b, e)>>
    /\ session_managers = {}
    /\ session_call = NoSessionCall
    /\ RestInit

\* get_session_path() alone, on every pair of objects.
PathSpec == PathInit /\ [][GetSessionPath]_vars

\* All but the state of iot_tools.py.
not_iot_vars == <<session_state, model_router, strands_agent, probes, probe_failures,
                  constructions, calls, extraction, last, session_vars, threads,
                  stream>>

\* control_device(device_id, action), the tool.
ControlDevice ==
    /\ \E device_id \in DeviceIdArgs, action \in ActionArgs :
         LET result == control_device(default_registry, device_id, action)
         IN  /\ default_registry' = result.registry
             /\ device_call' = DeviceCall("control_device", device_id, action, result)
    /\ UNCHANGED not_iot_vars

\* read_sensor(device_id), the tool.
ReadSensor ==
    /\ \E device_id \in DeviceIdArgs, reading \in ReadingTexts :
         LET result == read_sensor(default_registry, device_id, reading)
         IN  /\ default_registry' = result.registry
             /\ device_call' = DeviceCall("read_sensor", device_id, "", result)
    /\ UNCHANGED not_iot_vars

\* list_devices(), the tool.
ListDevices ==
    /\ LET result == list_devices(default_registry)
       IN  /\ default_registry' = result.registry
           /\ device_call' = DeviceCall("list_devices", "", "", result)
    /\ UNCHANGED not_iot_vars

IoTNext ==
    \/ ControlDevice
    \/ ReadSensor
    \/ ListDevices

\* The IoT tools alone.
IoTSpec == Init /\ [][IoTNext]_vars

\* What the steps of a thread leave alone.
not_thread_vars == <<session_state, strands_agent, calls, extraction, last, session_vars,
                     iot_vars, stream>>

\* A thread enters set_mode("cloud") or get_model() on the router.
ThreadCall ==
    /\ session_state.agent # "None"
    /\ \E t \in Threads, op \in {"set_mode", "get_model"} :
         /\ threads[t].pc \in {"idle", "done"}
         /\ threads[t].n < MaxThreadCalls
         /\ threads' = [threads EXCEPT ![t] =
                           [pc |-> IF op = "set_mode" THEN "probe" ELSE "mode",
                            op |-> op, handle |-> None, ret |-> "", n |-> @.n + 1]]
    /\ UNCHANGED <<model_router, probes, probe_failures, constructions, not_thread_vars>>

\* set_mode: `if not self._check_connectivity(): return False`.
ThreadProbe ==
    /\ \E t \in Threads, probe \in ProbeOutcomes :
         /\ threads[t].pc = "probe"
         /\ probes' = probes + 1
         /\ probe_failures' = probe_failures + Failed(probe, 1)
         /\ threads' = [threads EXCEPT ![t] =
                           IF check_connectivity(probe) THEN [@ EXCEPT !.pc = "test"]
                           ELSE [@ EXCEPT !.pc = "done", !.ret = "False"]]
    /\ UNCHANGED <<model_router, constructions, not_thread_vars>>

\* get_model: `if self.current_mode == "local": return self.ollama_model`.
ThreadMode ==
    /\ \E t \in Threads :
         /\ threads[t].pc = "mode"
         /\ threads' = [threads EXCEPT ![t] =
                           IF model_router.current_mode = "local"
                           THEN [@ EXCEPT !.pc = "done", !.ret = "handle",
                                          !.handle = model_router.ollama_model]
                           ELSE [@ EXCEPT !.pc = "test"]]
    /\ UNCHANGED <<model_router, probes, probe_failures, constructions, not_thread_vars>>

\* _get_bedrock_model: `if self.bedrock_model is None:`.
ThreadTest ==
    /\ \E t \in Threads :
         /\ threads[t].pc = "test"
         /\ threads' = [threads EXCEPT ![t].pc =
                           IF model_router.bedrock_model = None THEN "construct"
                           ELSE "return"]
    /\ UNCHANGED <<model_router, probes, probe_failures, constructions, not_thread_vars>>

\* _get_bedrock_model: the call BedrockModel(...), its value not yet stored.
ThreadConstruct ==
    /\ \E t \in Threads, ctor \in CtorOutcomes :
         /\ threads[t].pc = "construct"
         /\ IF ctor = "ok"
            THEN /\ constructions' = constructions + 1
                 /\ threads' = [threads EXCEPT ![t].pc = "store",
                                               ![t].handle = BedrockModel(constructions + 1)]
            ELSE /\ constructions' = constructions
                 /\ threads' = [threads EXCEPT ![t].pc = "done", ![t].ret = "raised"]
    /\ UNCHANGED <<model_router, probes, probe_failures, not_thread_vars>>

\* _get_bedrock_model: `self.bedrock_model = ...`, the store of the value.
ThreadStore ==
    /\ \E t \in Threads :
         /\ threads[t].pc = "store"
         /\ model_router' = [model_router EXCEPT !.bedrock_model = threads[t].handle]
         /\ threads' = [threads EXCEPT ![t].pc = "return"]
    /\ UNCHANGED <<probes, probe_failures, constructions, not_thread_vars>>

\* _get_bedrock_model: `return self.bedrock_model`, the field read again;
\* get_model returns it, set_mode goes on.
ThreadReturn ==
    /\ \E t \in Threads :
         /\ threads[t].pc = "return"
         /\ threads' = [threads EXCEPT ![t] =
                           IF @.op = "get_model"
                           THEN [@ EXCEPT !.pc = "done", !.ret = "handle",
                                          !.handle = model_router.bedrock_model]
                           ELSE [@ EXCEPT !.pc = "assign",
                                          !.handle = model_router.bedrock_model]]
    /\ UNCHANGED <<model_router, probes, probe_failures, constructions, not_thread_vars>>

\* set_mode: `self.current_mode = "cloud"; return True`.
ThreadAssign ==
    /\ \E t \in Threads :
         /\ threads[t].pc = "assign"
         /\ model_router' = [model_router EXCEPT !.current_mode = "cloud"]
         /\ threads' = [threads EXCEPT ![t].pc = "done", ![t].ret = "True"]
    /\ UNCHANGED <<probes, probe_failures, constructions, not_thread_vars>>

ThreadNext ==
    \/ GetAgent
    \/ ThreadCall
    \/ ThreadProbe
    \/ ThreadMode
    \/ ThreadTest
    \/ ThreadConstruct
    \/ ThreadStore
    \/ ThreadReturn
    \/ ThreadAssign

\* Threads calling set_mode("cloud") and get_model() on the router of the
\* agent, their steps interleaved.
ThreadSpec == Init /\ [][ThreadNext]_vars

\* What stream_agent_response leaves alone.
not_stream_vars == <<session_state, probes, probe_failures, extraction, session_vars,
                     iot_vars, threads>>

\* stream_agent_response(agent, prompt), up to thread.start(): a new queue,
\* a new event and the producer thread.
StreamAgentResponse ==
    /\ calls < MaxCalls
    /\ session_state.agent # "None"
    /\ stream.consumer \in {"idle", "returned"}
    /\ stream' = [NoStream EXCEPT !.producer = "open", !.consumer = "test_done"]
    /\ calls' = calls + 1
    /\ last' = Call("stream_agent_response", "", "", "", None, "", 0, 0)
    /\ UNCHANGED <<model_router, strands_agent, constructions>>
    /\ UNCHANGED not_stream_vars

\* The producer enters agent.stream_chat(prompt): self.agent creates the
\* Agent on first use, stream_async gives its events.
ProducerOpen ==
    /\ stream.producer = "open"
    /\ \E events \in EventSeqs, ending \in StreamEndings, ctor \in CtorOutcomes :
         LET p == agent_property(model_router, strands_agent, ctor, constructions + 1)
             chunks == stream_chat(p.raised, events, ending)
         IN  /\ model_router' = p.router
             /\ strands_agent' = p.agent
             /\ constructions' = constructions + p.built
             /\ stream' = [stream EXCEPT !.producer = "put", !.pending = chunks,
                                         !.chunks = chunks]
    /\ UNCHANGED <<calls, last>>
    /\ UNCHANGED not_stream_vars

\* One turn of `async for text in agent.stream_chat(prompt)`:
\* text_queue.put(text), or the end of the loop.
ProducerPut ==
    /\ stream.producer = "put"
    /\ stream' = IF stream.pending # <<>>
                 THEN [stream EXCEPT !.text_queue = Append(@, Head(stream.pending)),
                                     !.pending = Tail(@)]
                 ELSE [stream EXCEPT !.producer = "finally"]
    /\ UNCHANGED <<model_router, strands_agent, constructions, calls, last>>
    /\ UNCHANGED not_stream_vars

\* finally: done_event.set()
ProducerFinally ==
    /\ stream.producer = "finally"
    /\ stream' = [stream EXCEPT !.done_event = TRUE, !.producer = "finished"]
    /\ UNCHANGED <<model_router, strands_agent, constructions, calls, last>>
    /\ UNCHANGED not_stream_vars

\* The generator reads done_event.is_set().
ConsumerTestDone ==
    /\ stream.consumer = "test_done"
    /\ stream' = [stream EXCEPT !.consumer = after_done_test(stream.done_event)]
    /\ UNCHANGED <<model_router, strands_agent, constructions, calls, last>>
    /\ UNCHANGED not_stream_vars

\* The generator reads text_queue.empty().
ConsumerTestEmpty ==
    /\ stream.consumer = "test_empty"
    /\ stream' = [stream EXCEPT !.consumer = IF stream.text_queue # <<>> THEN "get"
                                             ELSE "join"]
    /\ UNCHANGED <<model_router, strands_agent, constructions, calls, last>>
    /\ UNCHANGED not_stream_vars

\* text_queue.get(timeout=0.1): the oldest chunk, which is yielded, or
\* queue.Empty when the queue stayed empty.
ConsumerGet ==
    /\ stream.consumer = "get"
    /\ stream' = IF stream.text_queue # <<>>
                 THEN [stream EXCEPT !.yielded = Append(@, Head(stream.text_queue)),
                                     !.text_queue = Tail(@),
                                     !.consumer = "test_done"]
                 ELSE [stream EXCEPT !.consumer = "test_done"]
    /\ UNCHANGED <<model_router, strands_agent, constructions, calls, last>>
    /\ UNCHANGED not_stream_vars

\* thread.join(timeout=1.0), then the error of error_holder if there is one.
ConsumerJoin ==
    /\ stream.consumer = "join"
    /\ stream' = [stream EXCEPT !.yielded = IF stream.error_holder # ""
                                            THEN Append(@, stream.error_holder) ELSE @,
                                !.consumer = "returned"]
    /\ UNCHANGED <<model_router, strands_agent, constructions, calls, last>>
    /\ UNCHANGED not_stream_vars

ProducerNext ==
    \/ ProducerOpen
    \/ ProducerPut
    \/ ProducerFinally

ConsumerNext ==
    \/ ConsumerTestDone
    \/ ConsumerTestEmpty
    \/ ConsumerGet
    \/ ConsumerJoin

StreamNext ==
    \/ GetAgent
    \/ StreamAgentResponse
    \/ ProducerNext
    \/ ConsumerNext

\* The chat input of the UI: streams started one after the other, the steps
\* of the producer thread and of the generator interleaved.
StreamSpec == Init /\ [][StreamNext]_vars

\* The same with both threads scheduled: a thread that can take a step
\* takes one in the end (get's timeout expires, the interpreter switches
\* threads).
FairStreamSpec == StreamSpec /\ WF_vars(ProducerNext) /\ WF_vars(ConsumerNext)

SessionNext ==
    \/ CreateSessionManager
    \/ NewEdgeSessionManager
    \/ SessionManagerProperty
    \/ GetSessionPath
    \/ SessionExists

SessionSpec == SessionInit /\ [][SessionNext]_vars

----------------------------------------------------------------------------
(* Properties of the router and the agent *)

\* The last call was set_mode(m) on the router, directly or through the agent.
SetModeCalled(m) == last.op \in {"set_mode", "set_model_mode"} /\ last.arg = m

ProbeFailed == last.probed = 1 /\ ~check_connectivity(last.probe)

\* C1: while every probe run so far has succeeded, each set_mode("cloud")
\* returns True and leaves current_mode = "cloud", and the cloud handle has
\* been constructed exactly once in total once cloud mode was asked for.
C1_CloudSwitchSucceedsHandleBuiltOnce ==
    probe_failures = 0 =>
        /\ constructions <= 1
        /\ SetModeCalled("cloud") =>
              /\ last.ret = "True"
              /\ model_router.current_mode = "cloud"
              /\ constructions = 1

\* C2: a set_mode("cloud") whose probe failed returned False and left
\* current_mode as it was before the call.
C2_FailedProbeKeepsMode ==
    SetModeCalled("cloud") /\ ProbeFailed =>
        /\ last.ret = "False"
        /\ model_router.current_mode = last.pre.current_mode

C2_Witness ==
    /\ SetModeCalled("cloud")
    /\ last.probe = "timeout"
    /\ last.pre.current_mode = "cloud"
    /\ last.ret = "False"

\* C3: set_mode("cloud") fails if and only if its probe failed: with a
\* successful probe it returns True in cloud mode, with a failed probe the
\* mode is unchanged.
C3_CloudSwitchFailsIffProbeFails ==
    SetModeCalled("cloud") =>
        /\ last.probed = 1
        /\ (last.ret # "True") <=> ProbeFailed
        /\ ~ProbeFailed => last.ret = "True" /\ model_router.current_mode = "cloud"
        /\ ProbeFailed => model_router.current_mode = last.pre.current_mode

\* C4: in every state of an existing router, get_model() returns, whatever
\* a constructor call would do, a handle that is not None and is the one of
\* current_mode: ollama_model in local mode, bedrock_model in cloud mode.
C4_ActiveModelMatchesMode ==
    session_state.agent # "None" =>
        /\ model_router.current_mode \in Modes
        /\ \A ctor \in CtorOutcomes :
              LET g == get_model(model_router, ctor, constructions + 1)
              IN  /\ ~g.raised
                  /\ g.handle # None
                  /\ model_router.current_mode = "local" => g.handle = OllamaModel
                  /\ model_router.current_mode = "cloud" =>
                        /\ g.handle.kind = "BedrockModel"
                        /\ g.handle = model_router.bedrock_model
        /\ last.op = "get_model" => last.ret = "handle" /\ last.handle # None

C4_Witness ==
    /\ last.op = "get_model"
    /\ model_router.current_mode = "cloud"
    /\ last.handle = model_router.bedrock_model
    /\ last.handle.kind = "BedrockModel"

\* C5: set_mode("local") returned True and left current_mode = "local",
\* ran no probe and left both handles as they were.
C5_SetLocalAlwaysSucceeds ==
    SetModeCalled("local") =>
        /\ last.ret = "True"
        /\ model_router.current_mode = "local"
        /\ last.probed = 0
        /\ last.built = 0
        /\ model_router.bedrock_model = last.pre.bedrock_model
        /\ model_router.ollama_model = last.pre.ollama_model

C5_Witness ==
    /\ SetModeCalled("local")
    /\ last.pre.current_mode = "cloud"
    /\ last.pre.bedrock_model # None
    /\ model_router.current_mode = "local"

\* C6: a freshly constructed router is in local mode, has its local handle
\* and has no cloud handle.
C6_FreshRouterIsLocal ==
    last.op = "__init__" =>
        /\ model_router.current_mode = "local"
        /\ model_router.ollama_model = OllamaModel
        /\ model_router.bedrock_model = None

C6_Witness ==
    /\ last.op = "__init__"
    /\ last.pre = NoRouter
    /\ session_state.agent = "EdgeOperatorAgent"

\* C7: set_mode with an argument that is neither "local" nor "cloud"
\* returned False, ran no probe and changed no field of the router.
C7_InvalidModeRejected ==
    last.op \in {"set_mode", "set_model_mode"} /\ last.arg \notin Modes =>
        /\ last.ret = "False"
        /\ last.probed = 0
        /\ last.built = 0
        /\ model_router = last.pre

C7_Witness ==
    /\ last.op = "set_mode"
    /\ last.arg = "Cloud"
    /\ last.pre.current_mode = "cloud"
    /\ last.ret = "False"

\* A call that may build the cloud handle: a switch to cloud whose probe
\* succeeded, or a read of the active model in cloud mode.
BuildingCall ==
    \/ /\ last.op \in {"set_mode", "set_model_mode", "render_sidebar"}
       /\ last.arg = "cloud"
       /\ last.probe = "connected"
       /\ last.ret = "True"
    \/ /\ last.op \in {"get_model", "chat"}
       /\ last.pre.current_mode = "cloud"

\* C8: the cloud handle is lazy and persistent: no call other than a
\* successful switch to cloud or a cloud-mode read takes bedrock_model from
\* None to a handle, and no call changes a handle that exists.
C8_CloudHandleLazyAndPersistent ==
    /\ last.op = "none" => model_router.bedrock_model = None
    /\ last.pre.bedrock_model # None =>
          model_router.bedrock_model = last.pre.bedrock_model
    /\ last.pre.bedrock_model = None /\ model_router.bedrock_model # None =>
          BuildingCall /\ last.built = 1

C8_Witness ==
    /\ SetModeCalled("cloud")
    /\ last.ret = "True"
    /\ last.pre.current_mode = "local"
    /\ last.pre.bedrock_model # None
    /\ model_router.bedrock_model = last.pre.bedrock_model

\* C9: no call of set_mode, get_model or extract_scada_metrics terminates
\* abnormally: whatever the input, the probe and the construction of the
\* cloud handle do, the failure is a returned value.
C9_NoCallRaises ==
    last.op \in {"set_mode", "get_model", "extract_scada_metrics"} =>
        last.ret # "raised"

\* C10: agent.set_model_mode("cloud") whose probe failed returned
\* (False, "... Remaining in local mode.") and the agent is in local mode.
C10_FailedCloudSwitchStaysLocal ==
    last.op = "set_model_mode" /\ last.arg = "cloud" /\ ProbeFailed =>
        /\ last.ret = "False"
        /\ last.message = MsgRemainLocal
        /\ model_router.current_mode = "local"

----------------------------------------------------------------------------
(* Properties of the extraction *)

\* The last call was extract_scada_metrics on `text`.
Extracted(text) == last.op = "extract_scada_metrics" /\ extraction.report_text = text

Whitespace == {" ", "\n", "\t", "\r"}

\* The report of the last call is empty or made of whitespace only.
BlankExtracted ==
    /\ last.op = "extract_scada_metrics"
    /\ \A k \in 1..Len(extraction.report_text) :
          CharAt(extraction.report_text, k) \in Whitespace

\* C11: extract_scada_metrics on an empty or whitespace-only report returns
\* the empty-input failure and has searched the text for no field.
C11_BlankReportIsEmptyInput ==
    BlankExtracted =>
        /\ extraction.result.kind = "EmptyInput"
        /\ extraction.result.searched = <<>>
        /\ extraction.result.metrics = NoMetrics

C11_Witness ==
    /\ Extracted(" \n\t ")
    /\ extraction.result.kind = "EmptyInput"

\* C12: a report of the five required fields in the canonical phrasing, with
\* well-formed values and no equipment block, gives success with exactly
\* those five values and an empty equipment list.
C12_CanonicalReportExtracted ==
    \A i \in CanonicalInputs :
        Extracted(CanonicalText(i)) =>
            /\ extraction.result.kind = "Success"
            /\ extraction.result.metrics = CanonicalMetrics(i, <<>>)

C12_Witness ==
    \E i \in CanonicalInputs :
        /\ i.efficiency.s = "87.5" /\ i.target.s = "007" /\ i.produced.s = "0"
        /\ Extracted(CanonicalText(i))
        /\ extraction.result.metrics = CanonicalMetrics(i, <<>>)

\* The first required field, in the order of extraction, that is not in
\* `present`.
FirstMissing(present) ==
    RequiredFields[CHOOSE k \in 1..Len(RequiredFields) :
                      /\ RequiredFields[k] \notin present
                      /\ \A j \in 1..(k - 1) : RequiredFields[j] \in present]

\* C13: a non-empty report in which some required field is missing fails
\* with MissingField naming the first missing field in the order line_id,
\* shift, units_produced, units_target, efficiency_percent, and the result
\* carries no record and no extracted value.
C13_MissingFieldNamed ==
    \A c \in {d \in PartialCases : d[2] # AllFields} :
        Extracted(PartialText(c[1], c[2])) =>
            /\ extraction.result.kind = "MissingField"
            /\ extraction.result.field = FirstMissing(c[2])
            /\ extraction.result.metrics = NoMetrics
            /\ extraction.result.text = NoText

C13_Witness ==
    /\ Extracted(PartialText(CanonicalInput, AllFields \ {"shift", "units_target"}))
    /\ extraction.result.kind = "MissingField"
    /\ extraction.result.field = "shift"

\* C14: a report whose units-produced field carries a negative integer,
\* the other required fields being well-formed, gives a validation failure
\* that names units_produced.
C14_NegativeUnitsIsValidationFailure ==
    \A i \in NegativeInputs :
        Extracted(CanonicalText(i)) =>
            /\ extraction.result.kind = "ValidationFailure"
            /\ \E k \in 1..Len(extraction.result.errors) :
                  extraction.result.errors[k] = "units_produced"


\* C15: when required fields match their patterns but fail conversion or
\* validation, the result is one validation failure that lists every such
\* field; a conversion failure is not reported as another kind of error.
C15_ConversionFailuresEnumerated ==
    \A i \in LongInputs :
        Extracted(CanonicalText(i)) =>
            /\ extraction.result.kind = "ValidationFailure"
            /\ i.produced.s = LongDigits => InSeq("units_produced", extraction.result.errors)
            /\ i.target.s = LongDigits => InSeq("units_target", extraction.result.errors)

\* The status keywords of an equipment block that is kept.
KnownStatuses == {"running", "stopped", "maintenance", "fault"}

\* The entries of the blocks whose status is known, in order, each with the
\* given readings and alarms.
KeptEntries(blocks, readings, alarms) ==
    LET kept == SelectSeq(blocks, LAMBDA b : b.status \in KnownStatuses)
    IN  [k \in 1..Len(kept) |->
            [equipment_id |-> kept[k].equipment_id, name |-> kept[k].name,
             status |-> kept[k].status, readings |-> readings, active_alarms |-> alarms]]

\* C16: with the five required fields present and valid, the extraction
\* succeeds whatever the equipment blocks are, and the equipment list holds
\* exactly the blocks whose status is running, stopped, maintenance or
\* fault (in any letter case), in their order of appearance.
C16_EquipmentWithKnownStatusKept ==
    \A blocks \in BlockSeqs :
        Extracted(EquipmentText(CanonicalInput, blocks)) =>
            /\ extraction.result.kind = "Success"
            /\ extraction.result.metrics =
                  CanonicalMetrics(CanonicalInput, KeptEntries(blocks, <<>>, <<>>))

C16_Witness ==
    \E blocks \in BlockSeqs :
        /\ Len(blocks) = 2 /\ blocks[1].status = "unknown" /\ blocks[2].written = "STOPPED"
        /\ Extracted(EquipmentText(CanonicalInput, blocks))
        /\ Len(extraction.result.metrics.equipment) = 1
        /\ extraction.result.metrics.equipment[1].status = "stopped"

\* The severities of an alarm that is kept.
KnownSeverities == {"low", "medium", "high", "critical"}

\* A sensor reading or an alarm that passes its own validation.
ValidEntry(e) == e.kind = "sensor" \/ e.keyword \in KnownSeverities

EntriesOf(entries, kind) ==
    LET kept == SelectSeq(entries, LAMBDA e : e.kind = kind /\ ValidEntry(e))
    IN  [k \in 1..Len(kept) |-> kept[k].entry]

\* C17: a sensor reading or an alarm that fails its own validation is
\* dropped alone: the equipment entry is there with the other readings and
\* alarms, and the result is the one of the report without that line.
C17_InvalidSubEntityDroppedAlone ==
    \A entries \in SubEntitySeqs :
        Extracted(SubEntityText(entries)) =>
            /\ extraction.result.kind = "Success"
            /\ extraction.result.metrics =
                  CanonicalMetrics(CanonicalInput,
                      KeptEntries(<<PumpBlock>>, EntriesOf(entries, "sensor"),
                                  EntriesOf(entries, "alarm")))
            /\ extraction.result =
                  ReportResults[SubEntityText(SelectSeq(entries, ValidEntry))]

C17_Witness ==
    \E entries \in SubEntitySeqs :
        /\ Len(entries) = 2 /\ entries[1].keyword = "severe" /\ entries[2].keyword = "high"
        /\ Extracted(SubEntityText(entries))
        /\ Len(extraction.result.metrics.equipment) = 1
        /\ Len(extraction.result.metrics.equipment[1].active_alarms) = 1

----------------------------------------------------------------------------
(* Properties of session_manager.py *)

\* The path of the storage directory of the last call.
StoragePath == PurePath(session_call.storage_dir)

\* A file stands where the path or one of its ancestors should be.
Blocked(fs, path) == Prefixes(path) \cap fs.files # {}

\* C19: when create_session_manager returns, storage_dir is a directory and
\* so is every parent of it, and nothing else on the disk has changed; it
\* returns whenever no file stands in the way, missing parents or not; when
\* the directory is already there it returns and leaves the disk as it was,
\* so a second call is the same as one.
C19_StorageDirCreated ==
    session_call.op = "create_session_manager" =>
        /\ ~session_call.raised =>
              /\ Prefixes(StoragePath) \subseteq filesystem.dirs
              /\ filesystem.dirs = session_call.pre_fs.dirs \cup Prefixes(StoragePath)
              /\ filesystem.files = session_call.pre_fs.files
              /\ session_call.built = 1
              /\ session_call.ret.kind = "FileSessionManager"
        /\ ~Blocked(session_call.pre_fs, StoragePath) => ~session_call.raised
        /\ IsDir(session_call.pre_fs, StoragePath) =>
              ~session_call.raised /\ filesystem = session_call.pre_fs

\* A second call on the nested directory an earlier call has made with its
\* parents.
C19_Witness ==
    /\ session_call.op = "create_session_manager"
    /\ ~session_call.raised
    /\ StoragePath = <<"level1", "level2", "sessions">>
    /\ IsDir(session_call.pre_fs, StoragePath)
    /\ filesystem = session_call.pre_fs

\* The EdgeSessionManager the last call was made on, before and after it.
Before == session_call.pre_managers[session_call.manager]

After == edge_managers[session_call.manager]

\* The underlying manager is None after construction and is left as it was
\* by every call but a read of the session_manager property of that object;
\* a read that finds a manager returns it, builds nothing and changes
\* nothing.
LazyAtMostOnce ==
    /\ session_call.op = "__init__" => After.session_manager = None
    /\ \A k \in 1..Len(session_call.pre_managers) :
          edge_managers[k] # session_call.pre_managers[k] =>
              session_call.op = "session_manager" /\ session_call.manager = k
    /\ session_call.op \in {"get_session_path", "session_exists"} =>
          /\ edge_managers = session_call.pre_managers
          /\ filesystem = session_call.pre_fs
          /\ session_call.built = 0
    /\ (session_call.op = "session_manager" /\ Before.session_manager # None) =>
          /\ ~session_call.raised
          /\ session_call.ret = Before.session_manager
          /\ session_call.built = 0
          /\ edge_managers = session_call.pre_managers
          /\ filesystem = session_call.pre_fs

FirstAccess == session_call.op = "session_manager" /\ Before.session_manager = None

\* The first access has built exactly one manager, kept it and returned it.
Initialised ==
    /\ After.session_manager # None
    /\ After.session_manager.kind = "FileSessionManager"
    /\ session_call.ret = After.session_manager
    /\ session_call.built = 1
    /\ After.session_manager \notin
          {session_call.pre_managers[k].session_manager :
              k \in 1..Len(session_call.pre_managers)}

Parent(path) == SubSeq(path, 1, Len(path) - 1)

\* C21: get_session_path() is storage_dir / ("session_" + session_id), and
\* two EdgeSessionManager objects on the same storage_dir and on different
\* session ids have different session paths with the same parent.
C21_SessionPathsIsolated ==
    /\ session_call.op = "get_session_path" =>
          session_call.ret = JoinPath(PurePath(Before.storage_dir),
                                      "session_" \o Before.session_id)
    /\ \A i \in 1..Len(edge_managers), j \in 1..Len(edge_managers) :
          (/\ edge_managers[i].storage_dir = edge_managers[j].storage_dir
           /\ edge_managers[i].session_id # edge_managers[j].session_id) =>
              /\ get_session_path(edge_managers[i]) # get_session_path(edge_managers[j])
              /\ Parent(get_session_path(edge_managers[i])) =
                    Parent(get_session_path(edge_managers[j]))

\* The ids "s1" and "s1/" on one directory: one session path for both.
C21_SharedPath ==
    /\ session_call.op = "get_session_path"
    /\ edge_managers[1].storage_dir = edge_managers[2].storage_dir
    /\ edge_managers[1].session_id = "s1"
    /\ edge_managers[2].session_id = "s1/"
    /\ get_session_path(edge_managers[1]) = get_session_path(edge_managers[2])

\* Without a path separator in either id the paths differ and share the
\* parent.
C21_PlainIdsIsolated ==
    \A i \in 1..Len(edge_managers), j \in 1..Len(edge_managers) :
        (/\ edge_managers[i].storage_dir = edge_managers[j].storage_dir
         /\ edge_managers[i].session_id # edge_managers[j].session_id
         /\ {edge_managers[i].session_id, edge_managers[j].session_id} \subseteq SessionIds) =>
            /\ get_session_path(edge_managers[i]) # get_session_path(edge_managers[j])
            /\ Parent(get_session_path(edge_managers[i])) =
                  Parent(get_session_path(edge_managers[j]))

\* The place of the session file of the object the last call was made on.
SessionFile == get_session_path(Before) \o <<"session.json">>

C22_NewSession ==
    /\ session_call.op = "session_exists"
    /\ session_call.ret = FALSE
    /\ IsDir(filesystem, PurePath(Before.storage_dir))
    /\ PurePath(Before.storage_dir) # <<>>

----------------------------------------------------------------------------
(* Properties of the IoT tools *)

\* The device the last call named, as it was before the call.
Named == get(device_call.pre, device_call.device_id)

\* The last call named a registered actuator and one of its states.
ValidControl ==
    /\ Named # None
    /\ Named.class = "ActuatorDevice"
    /\ InSeq(device_call.action, Named.states)

\* The kind of error of a control_device call that is not valid.
ControlError ==
    IF Named = None THEN "NotFound"
    ELSE IF Named.class # "ActuatorDevice" THEN "NotActuator"
    ELSE "InvalidAction"

\* C23: control_device(device_id, action) sets the state exactly when
\* device_id names a registered actuator and action is one of its states:
\* then current_state is action, the answer reports the state held before
\* and no other device changes; for an unknown device, a sensor or an
\* invalid action the answer is an error and no device changes.  No other
\* tool changes a device, and the state of an actuator is always one of its
\* states.
C23_ControlDeviceValidated ==
    /\ (device_call.op = "control_device" /\ ValidControl) =>
          /\ device_call.kind = "Success"
          /\ get(default_registry, device_call.device_id).current_state = device_call.action
          /\ device_call.previous_state = Named.current_state
          /\ default_registry =
                register(device_call.pre,
                         [Named EXCEPT !.current_state = device_call.action])
    /\ (device_call.op = "control_device" /\ ~ValidControl) =>
          /\ device_call.kind = ControlError
          /\ SubSeq(device_call.text, 1, 6) = "Error:"
          /\ default_registry = device_call.pre
    /\ device_call.op \in {"read_sensor", "list_devices"} =>
          default_registry = device_call.pre
    /\ \A i \in 1..Len(default_registry) :
          default_registry[i].class = "ActuatorDevice" =>
              InSeq(default_registry[i].current_state, default_registry[i].states)

\* The valve opened from closed, the answer reporting "closed".
C23_Witness ==
    /\ device_call.op = "control_device"
    /\ device_call.kind = "Success"
    /\ device_call.previous_state = "closed"
    /\ get(default_registry, "valve-actuator").current_state = "open"

\* The three error cases happen.
C23_ErrorCases ==
    /\ device_call.op = "control_device"
    /\ device_call.kind = "InvalidAction"
    /\ device_call.action = "OPEN"

----------------------------------------------------------------------------
(* Properties of the router under threads *)

\* The thread has come back from a call with a cloud handle in hand.
HoldsCloudHandle(t) ==
    /\ threads[t].pc = "done"
    /\ threads[t].ret \in {"True", "handle"}
    /\ threads[t].handle.kind = "BedrockModel"

\* C24: threads that make a first set_mode("cloud") or a first cloud-mode
\* get_model() at the same time on one router, the probe succeeding, do not
\* construct the cloud handle twice: one BedrockModel is constructed and
\* every caller ends with that one.
C24_CloudHandleBuiltOnce ==
    /\ constructions <= 1
    /\ \A t \in Threads, u \in Threads :
          (HoldsCloudHandle(t) /\ HoldsCloudHandle(u)) =>
              threads[t].handle = threads[u].handle
    /\ \A t \in Threads :
          HoldsCloudHandle(t) => threads[t].handle = model_router.bedrock_model

\* Two threads past the `is None` test at once.
C24_BothConstruct ==
    \A t \in Threads : threads[t].pc \in {"construct", "store"} /\ threads[t].n = 1

----------------------------------------------------------------------------
(* Properties of the probe, the UI and the Agent *)

\* The call that has just been made was set_mode("cloud") on the router or
\* has made that call (the sidebar makes none when the selection is the mode
\* it shows).
AskedCloud ==
    /\ last.op \in {"set_mode", "set_model_mode", "render_sidebar"}
    /\ last.arg = "cloud"
    /\ last.ret # "skip"

\* C25: a call of set_mode("cloud"), made directly, through the agent or
\* through the sidebar, runs the connectivity probe once, whether it succeeds
\* or fails and whether or not the router is in cloud mode; set_mode("local"),
\* set_mode with an invalid mode, get_model, chat and the construction of the
\* agent run no probe.
C25_OneProbePerCloudSwitch ==
    [][/\ AskedCloud' => (probes' = probes + 1 /\ last'.probed = 1)
       /\ ~AskedCloud' => (probes' = probes /\ last'.probed = 0)
       /\ probe_failures' = probe_failures + Failed(last'.probe, last'.probed)]_vars

\* set_mode("cloud") on a router in cloud mode, the probe failing.
C25_Witness ==
    /\ last.op = "set_mode"
    /\ last.arg = "cloud"
    /\ last.pre.current_mode = "cloud"
    /\ last.probed = 1
    /\ ProbeFailed
    /\ probes >= 2

----------------------------------------------------------------------------
(* Properties of the order of the patterns *)

\* C26: the value of a required field is the capture of the first pattern
\* of its list that matches anywhere in the text, whatever matches earlier in
\* the text: with "Production Line: LINE-001" and a bare "Line: L2" in the
\* text, in either order, line_id is LINE-001; with a phrasing of a later
\* pattern before the one of the first pattern, the first pattern decides.
C26_PatternPriorityDecides ==
    \A text \in LinePhrasings \cup LaterPatternFirst :
        Extracted(text) =>
            /\ extraction.result.kind = "Success"
            /\ extraction.result.metrics = CanonicalMetrics(CanonicalInput, <<>>)

\* The bare "Line: L2" written first is the line_id of the result.
C26_BareLineFirst ==
    /\ Extracted(TwiceText("Line: L2", "Production Line: LINE-001"))
    /\ extraction.result.kind = "Success"
    /\ extraction.result.metrics.line_id = "L2"

\* Between two patterns of a list the order of the list decides.
C26_ListOrderDecides ==
    \A text \in LaterPatternFirst :
        Extracted(text) =>
            /\ extraction.result.kind = "Success"
            /\ extraction.result.metrics = CanonicalMetrics(CanonicalInput, <<>>)

----------------------------------------------------------------------------
(* Properties of the scan for readings and alarms *)

\* The entries of one kind among the items, in the order of the text.
ItemsOf(items, kind) ==
    LET kept == SelectSeq(items, LAMBDA x : ~IsBlock(x) /\ x.kind = kind)
    IN  [k \in 1..Len(kept) |-> kept[k].entry]

BlocksOf(items) == SelectSeq(items, IsBlock)

C27_NothingKept ==
    \E items \in ItemSeqs :
        /\ Len(items) = 3
        /\ \E k \in 1..3 : IsBlock(items[k]) /\ items[k].equipment_id = "X5"
        /\ Extracted(DocumentText(items))
        /\ extraction.result.kind = "Success"
        /\ extraction.result.metrics.equipment = <<>>

----------------------------------------------------------------------------
(* Properties of the UI's mode against the router's *)

\* C28: after any sequence of mode selections handled by render_sidebar,
\* with every probe outcome, st.session_state.model_mode equals the
\* router's current_mode whenever the agent exists, and is "local" while no
\* agent has been created.
C28_ShownModeIsRouterMode ==
    IF session_state.agent = "None"
    THEN session_state.model_mode = "local"
    ELSE session_state.model_mode = model_router.current_mode

\* A cloud selection whose probe failed, made after an earlier selection had
\* put the router in cloud mode and a later one back in local mode.
C28_Witness ==
    /\ last.op = "render_sidebar"
    /\ last.arg = "cloud"
    /\ last.ret = "False"
    /\ last.pre.bedrock_model # None
    /\ session_state.model_mode = "local"
    /\ model_router.current_mode = "local"

\* The UI and the router both in cloud mode after a selection.
C28_BothCloud ==
    /\ last.op = "render_sidebar"
    /\ session_state.model_mode = "cloud"
    /\ model_router.current_mode = "cloud"

----------------------------------------------------------------------------
(* Properties of the Agent under mode switches *)

\* What model_router.get_model() returns in the current state.
ActiveHandle ==
    IF model_router.current_mode = "local" THEN model_router.ollama_model
    ELSE model_router.bedrock_model

\* The step is a set_model_mode call.
ModeSwitch == last'.op = "set_model_mode"

\* The step keeps the Agent instance (none stays none, an existing one stays
\* the same instance) and the session managers made so far.
KeepsAgent ==
    /\ (strands_agent = None) = (strands_agent' = None)
    /\ strands_agent # None =>
          /\ strands_agent'.kind = strands_agent.kind
          /\ strands_agent'.id = strands_agent.id
    /\ session_managers' = session_managers
    /\ filesystem' = filesystem

\* C29: after any sequence of set_model_mode and chat calls, whenever the
\* Agent exists its model is the handle model_router.get_model() returns
\* for the current mode; and a mode switch, successful or failed, neither
\* recreates the Agent nor replaces its session manager.
C29_AgentModelFollowsRouter ==
    /\ [](strands_agent # None => strands_agent.model = ActiveHandle)
    /\ [][ModeSwitch => KeepsAgent]_vars

\* An existing Agent on the local handle was switched to the cloud handle.
C29_Witness ==
    /\ last.op = "set_model_mode"
    /\ last.arg = "cloud"
    /\ last.ret = "True"
    /\ last.pre_agent # None
    /\ last.pre_agent.model = last.pre.ollama_model
    /\ strands_agent.model = model_router.bedrock_model
    /\ model_router.bedrock_model # None

\* A switch to cloud failed at the probe while the Agent held the cloud
\* handle: Agent and router are both left on cloud.
C29_FailedSwitch ==
    /\ last.op = "set_model_mode"
    /\ last.ret = "False"
    /\ last.pre_agent # None
    /\ last.pre.current_mode = "cloud"
    /\ strands_agent.model = model_router.bedrock_model

----------------------------------------------------------------------------
(* Properties of stream_agent_response *)

\* The chunks of the stream are, in order, those yielded, those on the
\* queue and those stream_chat has still to give.
InOrder == stream.yielded \o stream.text_queue \o stream.pending = stream.chunks

\* A generator that returned has yielded every chunk.
Complete ==
    stream.consumer = "returned" =>
        /\ stream.producer = "finished"
        /\ stream.yielded = stream.chunks

\* The producer has finished and the queue is empty.
Drained ==
    /\ stream.producer = "finished"
    /\ stream.done_event
    /\ stream.text_queue = <<>>

\* C30: under every interleaving of the producer thread and the generator,
\* stream_agent_response yields exactly the chunks agent.stream_chat
\* produced, in production order, none lost and none twice; and once the
\* producer has finished and the queue is empty the generator terminates.
C30_StreamYieldsChunksInOrder ==
    /\ [](InOrder /\ Complete)
    /\ Drained ~> (stream.consumer = "returned")

\* A generator that returned after yielding three chunks, the last one the
\* text of an exception of stream_async.
C30_Witness ==
    /\ stream.consumer = "returned"
    /\ Len(stream.yielded) = 3
    /\ stream.yielded[1] # stream.yielded[2]
    /\ stream.yielded[3] = ErrorText

\* The producer has finished while chunks are still on the queue and the
\* generator is reading done_event.
C30_DoneBeforeDrained ==
    /\ stream.done_event
    /\ Len(stream.text_queue) = 2
    /\ stream.consumer = "test_done"

====
